---------------------------- MODULE Spec2Model ----------------------------
(***************************************************************************)
(* A model of the proving core of Lasso/Jolt: construction of the bytecode *)
(* polynomials (jolt-core/src/jolt/vm/bytecode.rs and the older pc.rs),    *)
(* the instruction-lookup orchestrator (instruction_lookups.rs), subtable  *)
(* materialisation against multilinear extensions, polynomial merging and  *)
(* the verifier's control flow.                                            *)
(*                                                                         *)
(* Field elements are integers modulo FieldP.  Every identity checked here *)
(* is an identity of commutative rings, so it carries over to the scalar   *)
(* field of the curve; inequalities are stated on tuples or multisets.     *)
(***************************************************************************)
EXTENDS Integers, Sequences, FiniteSets, Bags, TLC

VARIABLES
    impl,           \* "bytecode": BytecodePolynomials::new, "pc": PCPolys::new_program
    arg_bytecode,   \* the bytecode / program vector as passed by the caller
    arg_trace,      \* the trace vector as passed by the caller
    bytecode,       \* the callee's `mut bytecode` / `mut program`
    trace,          \* the callee's `mut trace`
    bc_pc,          \* position inside new / new_program and compute_leaves
    bc_panic,       \* the step in which an assertion or an index went wrong ("none" if none)
    polys,          \* the BytecodePolynomials / PCPolys struct, once built
    leaves,         \* the result of BytecodeProof::compute_leaves, once computed
    st_kind,        \* the subtable at hand: "EQ" or "ZeroLSB"
    st_n,           \* log2 of the table size M
    st_table,       \* the result of materialize(M), once computed
    st_point,       \* the argument of evaluate_mle
    st_eval,        \* the result of evaluate_mle
    st_pc,          \* "materialize", "evaluate", "done", "panic" ("idle" when unused)
    mg_kind,        \* the caller of DensePolynomial::merge: "derefs" or "batch"
    mg_polys,       \* the polynomials handed to the caller
    mg_c,           \* the argument c of Derefs::new
    mg_comb,        \* the merged polynomial, once built
    mg_point,       \* the index whose bit vector the merged polynomial is evaluated at
    mg_eval,        \* the result of that evaluation
    mg_pc,          \* "merge", "evaluate", "done", "panic" ("idle" when unused)
    lk_iset,        \* the InstructionSet: for every opcode, the subtables it lists
    lk_ops,         \* the ops given to InstructionLookups::new
    lk_polys,       \* the InstructionPolynomials built by polynomialize
    lk_leaves,      \* the leaves built by compute_leaves, with their gamma and tau
    lk_rw_hashes,   \* the hashes of read_write_grand_product: R W R W ...
    lk_if_hashes,   \* the hashes of the init/final grand products: I F .. F I F .. F
    lk_pc,          \* position of the prover's memory checking ("idle" when unused)
    vf_proof,       \* the proof and the commitment handed to InstructionLookups::verify
    vf_pc,          \* the check verify is about to run ("idle" when unused)
    vf_result,      \* "running", "Ok", "Err" (a ProofVerifyError), "abort" (a panic)
    vf_failed,      \* the check that ended verification ("none" if none)
    vf_log,         \* the checks run so far, in order
    sc_ops,         \* the ops of the InstructionLookups that proves
    sc_seed,        \* the state of the transcript handed to prove_lookups and to verify
    sc_pc,          \* position in prove_lookups, then in verify ("idle" when unused)
    sc_prover,      \* the locals of prove_lookups and prove_primary_sumcheck
    sc_proof,       \* the InstructionLookupsProof and the commitment prove_lookups returns
    sc_verifier,    \* the locals of verify: its transcript log, claim, challenges, result
    gp_poly,        \* the leaves handed to GrandProductCircuit::new
    gp_pc,          \* "new", "layers", "built", "evaluated" or "panic" ("idle" when unused)
    gp_circuit,     \* left_vec and right_vec of the circuit
    gp_eval,        \* the value returned by evaluate, when it was called
    bge_x,          \* the first operand of BGEInstruction, as a word
    bge_y,          \* the second operand, as a word
    bge_pc,         \* "to_indices", "lookup", "combine" or "done" ("idle" when unused)
    bge_indices,    \* the result of to_indices
    bge_vals,       \* the dereferenced subtable values
    bge_out,        \* the result of combine_lookups
    fp_inputs,      \* the tuple (a, v, t, flag) handed to fingerprint
    fp_gamma,       \* the challenge gamma
    fp_tau,         \* the challenge tau
    fp_pc,          \* "fingerprint" or "done" ("idle" when unused)
    fp_out,         \* the fingerprint, once computed
    ba_circuits,    \* the grand product circuits handed to BatchedGrandProductArgument::prove
    ba_seed,        \* the state of the transcript handed to prove and to verify
    ba_pc,          \* position in prove, then in verify, "end" or "panic" ("idle" when unused)
    ba_prover,      \* the locals of prove: claims, rand, the layer proofs, its transcript log
    ba_verifier,    \* the locals of verify: claims, rand, the layers done, its transcript log
    pm_trace,       \* the memory_trace handed to Jolt::prove_memory: steps of MemoryOps
    pm_size,        \* memory_size
    pm_r,           \* r_mem_check: gamma and tau
    pm_pc,          \* "loop", "polys" or "todo" ("idle" when unused)
    pm_locals,      \* timestamp, read_set, write_set, final_set and the four polynomials
    tv_trace_len,   \* the length of the memory_trace handed to Jolt::prove_memory
    tv_pc,          \* "prove", "verify" or "done" ("idle" when unused)
    tv_proof,       \* memory_trace_size of the ReadWriteMemoryProof and the surge_M of its Surge proof
    tv_surge_M,     \* the surge_M verify_memory hands to Surge::verify
    sl_C,           \* the number of chunks C
    sl_M,           \* the subtable size M
    sl_memory,      \* the value of every memory E_i at the step of the instruction
    sl_pc,          \* "subtables", "supply", "combine", "done" or "panic" ("idle" when unused)
    sl_subtables,   \* the result of SLLInstruction::subtables(C), by subtable index
    sl_vals,        \* the values InstructionLookups hands to combine_lookups
    sl_out,         \* the result of combine_lookups
    hs_h,           \* the MultisetHashes handed to interleave_hashes
    hs_pc,          \* "interleave", "uninterleave", "done" or "panic" ("idle" when unused)
    hs_rw,          \* the read/write vector of interleave_hashes
    hs_if,          \* the init/final vector of interleave_hashes
    hs_back,        \* the MultisetHashes of uninterleave_hashes
    r1_arg_bytecode,\* the bytecode handed to r1cs_polys_from_bytecode
    r1_arg_trace,   \* the trace handed to r1cs_polys_from_bytecode
    r1_bytecode,    \* the bytecode vector as the function mutates it
    r1_trace,       \* the trace vector as the function mutates it
    r1_pc,          \* "validate", "preprocess", "build", "done" or "panic" ("idle" when unused)
    r1_out          \* the three vectors r1cs_polys_from_bytecode returns

bytecodeVars ==
    <<impl, arg_bytecode, arg_trace, bytecode, trace, bc_pc, bc_panic, polys, leaves>>

subtableVars == <<st_kind, st_n, st_table, st_point, st_eval, st_pc>>

mergeVars == <<mg_kind, mg_polys, mg_c, mg_comb, mg_point, mg_eval, mg_pc>>

lookupVars ==
    <<lk_iset, lk_ops, lk_polys, lk_leaves, lk_rw_hashes, lk_if_hashes, lk_pc>>

verifyVars == <<vf_proof, vf_pc, vf_result, vf_failed, vf_log>>

sumcheckVars ==
    <<sc_ops, sc_seed, sc_pc, sc_prover, sc_proof, sc_verifier>>

treeVars ==
    <<gp_poly, gp_pc, gp_circuit, gp_eval>>

bgeVars ==
    <<bge_x, bge_y, bge_pc, bge_indices, bge_vals, bge_out>>

fingerprintVars ==
    <<fp_inputs, fp_gamma, fp_tau, fp_pc, fp_out>>

batchedVars ==
    <<ba_circuits, ba_seed, ba_pc, ba_prover, ba_verifier>>

memoryVars ==
    <<pm_trace, pm_size, pm_r, pm_pc, pm_locals>>

timestampVars ==
    <<tv_trace_len, tv_pc, tv_proof, tv_surge_M>>

sllVars ==
    <<sl_C, sl_M, sl_memory, sl_pc, sl_subtables, sl_vals, sl_out>>

hashesVars ==
    <<hs_h, hs_pc, hs_rw, hs_if, hs_back>>

r1csVars ==
    <<r1_arg_bytecode, r1_arg_trace, r1_bytecode, r1_trace, r1_pc, r1_out>>

vars ==
    <<bytecodeVars,
      subtableVars,
      mergeVars,
      lookupVars,
      verifyVars,
      sumcheckVars,
      treeVars,
      bgeVars,
      fingerprintVars,
      batchedVars,
      memoryVars,
      timestampVars,
      sllVars,
      hashesVars,
      r1csVars>>

otherThanBytecode ==
    <<subtableVars,
      mergeVars,
      lookupVars,
      verifyVars,
      sumcheckVars,
      treeVars,
      bgeVars,
      fingerprintVars,
      batchedVars,
      memoryVars,
      timestampVars,
      sllVars,
      hashesVars,
      r1csVars>>
otherThanSubtable ==
    <<bytecodeVars,
      mergeVars,
      lookupVars,
      verifyVars,
      sumcheckVars,
      treeVars,
      bgeVars,
      fingerprintVars,
      batchedVars,
      memoryVars,
      timestampVars,
      sllVars,
      hashesVars,
      r1csVars>>
otherThanMerge ==
    <<bytecodeVars,
      subtableVars,
      lookupVars,
      verifyVars,
      sumcheckVars,
      treeVars,
      bgeVars,
      fingerprintVars,
      batchedVars,
      memoryVars,
      timestampVars,
      sllVars,
      hashesVars,
      r1csVars>>
otherThanLookups ==
    <<bytecodeVars,
      subtableVars,
      mergeVars,
      verifyVars,
      sumcheckVars,
      treeVars,
      bgeVars,
      fingerprintVars,
      batchedVars,
      memoryVars,
      timestampVars,
      sllVars,
      hashesVars,
      r1csVars>>
otherThanVerify ==
    <<bytecodeVars,
      subtableVars,
      mergeVars,
      lookupVars,
      sumcheckVars,
      treeVars,
      bgeVars,
      fingerprintVars,
      batchedVars,
      memoryVars,
      timestampVars,
      sllVars,
      hashesVars,
      r1csVars>>
otherThanSumcheck ==
    <<bytecodeVars,
      subtableVars,
      mergeVars,
      lookupVars,
      verifyVars,
      treeVars,
      bgeVars,
      fingerprintVars,
      batchedVars,
      memoryVars,
      timestampVars,
      sllVars,
      hashesVars,
      r1csVars>>
otherThanTree ==
    <<bytecodeVars,
      subtableVars,
      mergeVars,
      lookupVars,
      verifyVars,
      sumcheckVars,
      bgeVars,
      fingerprintVars,
      batchedVars,
      memoryVars,
      timestampVars,
      sllVars,
      hashesVars,
      r1csVars>>
otherThanBge ==
    <<bytecodeVars,
      subtableVars,
      mergeVars,
      lookupVars,
      verifyVars,
      sumcheckVars,
      treeVars,
      fingerprintVars,
      batchedVars,
      memoryVars,
      timestampVars,
      sllVars,
      hashesVars,
      r1csVars>>
otherThanFingerprint ==
    <<bytecodeVars,
      subtableVars,
      mergeVars,
      lookupVars,
      verifyVars,
      sumcheckVars,
      treeVars,
      bgeVars,
      batchedVars,
      memoryVars,
      timestampVars,
      sllVars,
      hashesVars,
      r1csVars>>
otherThanBatched ==
    <<bytecodeVars,
      subtableVars,
      mergeVars,
      lookupVars,
      verifyVars,
      sumcheckVars,
      treeVars,
      bgeVars,
      fingerprintVars,
      memoryVars,
      timestampVars,
      sllVars,
      hashesVars,
      r1csVars>>
otherThanMemory ==
    <<bytecodeVars,
      subtableVars,
      mergeVars,
      lookupVars,
      verifyVars,
      sumcheckVars,
      treeVars,
      bgeVars,
      fingerprintVars,
      batchedVars,
      timestampVars,
      sllVars,
      hashesVars,
      r1csVars>>
otherThanTimestamp ==
    <<bytecodeVars,
      subtableVars,
      mergeVars,
      lookupVars,
      verifyVars,
      sumcheckVars,
      treeVars,
      bgeVars,
      fingerprintVars,
      batchedVars,
      memoryVars,
      sllVars,
      hashesVars,
      r1csVars>>
otherThanSll ==
    <<bytecodeVars,
      subtableVars,
      mergeVars,
      lookupVars,
      verifyVars,
      sumcheckVars,
      treeVars,
      bgeVars,
      fingerprintVars,
      batchedVars,
      memoryVars,
      timestampVars,
      hashesVars,
      r1csVars>>
otherThanHashes ==
    <<bytecodeVars,
      subtableVars,
      mergeVars,
      lookupVars,
      verifyVars,
      sumcheckVars,
      treeVars,
      bgeVars,
      fingerprintVars,
      batchedVars,
      memoryVars,
      timestampVars,
      sllVars,
      r1csVars>>
otherThanR1cs ==
    <<bytecodeVars,
      subtableVars,
      mergeVars,
      lookupVars,
      verifyVars,
      sumcheckVars,
      treeVars,
      bgeVars,
      fingerprintVars,
      batchedVars,
      memoryVars,
      timestampVars,
      sllVars,
      hashesVars>>

IdleBytecode ==
    /\ impl = "none"
    /\ arg_bytecode = <<>> /\ arg_trace = <<>>
    /\ bytecode = <<>> /\ trace = <<>>
    /\ bc_pc = "idle" /\ bc_panic = "none"
    /\ polys = [built |-> FALSE]
    /\ leaves = [computed |-> FALSE]

IdleSubtable ==
    /\ st_kind = "none" /\ st_n = 0
    /\ st_table = <<>> /\ st_point = <<>> /\ st_eval = 0
    /\ st_pc = "idle"

IdleMerge ==
    /\ mg_kind = "none" /\ mg_polys = <<>> /\ mg_c = 0
    /\ mg_comb = <<>> /\ mg_point = 0 /\ mg_eval = 0
    /\ mg_pc = "idle"

IdleLookups ==
    /\ lk_iset = <<>> /\ lk_ops = <<>>
    /\ lk_polys = [built |-> FALSE]
    /\ lk_leaves = [computed |-> FALSE]
    /\ lk_rw_hashes = <<>> /\ lk_if_hashes = <<>>
    /\ lk_pc = "idle"

IdleVerify ==
    /\ vf_proof = [given |-> FALSE]
    /\ vf_pc = "idle" /\ vf_result = "none" /\ vf_failed = "none"
    /\ vf_log = <<>>

IdleSumcheck ==
    /\ sc_ops = <<>> /\ sc_seed = 0
    /\ sc_pc = "idle"
    /\ sc_prover = [started |-> FALSE]
    /\ sc_proof = [given |-> FALSE]
    /\ sc_verifier = [started |-> FALSE]

IdleTree ==
    /\ gp_poly = <<>>
    /\ gp_pc = "idle"
    /\ gp_circuit = [left_vec |-> <<>>, right_vec |-> <<>>]
    /\ gp_eval = 0

IdleBge ==
    /\ bge_x = 0
    /\ bge_y = 0
    /\ bge_pc = "idle"
    /\ bge_indices = <<>>
    /\ bge_vals = <<>>
    /\ bge_out = 0

IdleFingerprint ==
    /\ fp_inputs = [a |-> 0, v |-> 0, t |-> 0, flag |-> [some |-> FALSE]]
    /\ fp_gamma = 0
    /\ fp_tau = 0
    /\ fp_pc = "idle"
    /\ fp_out = 0

\* the locals of BatchedGrandProductArgument::prove before it runs
NoBatchedProver ==
    [claims_to_verify |-> <<>>, rand |-> <<>>, proof_layers |-> <<>>,
     transcript |-> <<>>, coeff_vec |-> <<>>, polys_A |-> <<>>, polys_B |-> <<>>,
     poly_C |-> <<>>, proof |-> <<>>, rand_prod |-> <<>>]

\* the locals of BatchedGrandProductArgument::verify before it runs
NoBatchedVerifier ==
    [claims_to_verify |-> <<>>, rand |-> <<>>, layers |-> 0, transcript |-> <<>>,
     coeff_vec |-> <<>>, e |-> 0, rand_prod |-> <<>>]

IdleBatched ==
    /\ ba_circuits = <<>>
    /\ ba_seed = 0
    /\ ba_pc = "idle"
    /\ ba_prover = NoBatchedProver
    /\ ba_verifier = NoBatchedVerifier

IdleMemory ==
    /\ pm_trace = <<>>
    /\ pm_size = 0
    /\ pm_r = [gamma |-> 0, tau |-> 0]
    /\ pm_pc = "idle"
    /\ pm_locals = [timestamp |-> 0, read_set |-> <<>>, write_set |-> <<>>,
                    final_set |-> <<>>, init_poly |-> <<>>, read_poly |-> <<>>,
                    write_poly |-> <<>>, final_poly |-> <<>>]

IdleTimestamp ==
    /\ tv_trace_len = 0
    /\ tv_pc = "idle"
    /\ tv_proof = [memory_trace_size |-> 0, surge_M |-> 0]
    /\ tv_surge_M = 0

IdleSll ==
    /\ sl_C = 0
    /\ sl_M = 0
    /\ sl_memory = <<>>
    /\ sl_pc = "idle"
    /\ sl_subtables = <<>>
    /\ sl_vals = <<>>
    /\ sl_out = 0

IdleHashes ==
    /\ hs_h = <<>>
    /\ hs_pc = "idle"
    /\ hs_rw = <<>>
    /\ hs_if = <<>>
    /\ hs_back = <<>>

IdleR1cs ==
    /\ r1_arg_bytecode = <<>>
    /\ r1_arg_trace = <<>>
    /\ r1_bytecode = <<>>
    /\ r1_trace = <<>>
    /\ r1_pc = "idle"
    /\ r1_out = <<>>

(***************************************************************************)
(* Bounds of the model.                                                    *)
(***************************************************************************)
MaxProgLen == 3
MaxTraceLen == 3

(***************************************************************************)
(* Program constants.  RAM_START_ADDRESS is 0x80000000 in the source; the  *)
(* model checker's integers are 32-bit signed, so the model uses 0x8000,   *)
(* which keeps what the code relies on: it is positive and a multiple of   *)
(* BYTES_PER_INSTRUCTION.                                                  *)
(***************************************************************************)
RAM_START_ADDRESS == 32768
BYTES_PER_INSTRUCTION == 4
ADDRESS_INCREMENT == 1
PC_LIMIT == 10000

(***************************************************************************)
(* The scalar field: a prime small enough for products to stay in range.   *)
(***************************************************************************)
FieldP == 2^15 - 19

FAdd(a, b) == (a + b) % FieldP
FSub(a, b) == (a - b) % FieldP
FMul(a, b) == ((a % FieldP) * (b % FieldP)) % FieldP

RECURSIVE FProd(_)
FProd(s) == IF s = <<>> THEN 1 ELSE FMul(Head(s), FProd(Tail(s)))

RECURSIVE FSum(_)
FSum(s) == IF s = <<>> THEN 0 ELSE FAdd(Head(s), FSum(Tail(s)))

(***************************************************************************)
(* Integer helpers of the standard library.                                *)
(***************************************************************************)
Max(S) == CHOOSE x \in S : \A y \in S : y <= x

RECURSIVE NextPow2From(_, _)
NextPow2From(p, n) == IF p >= n THEN p ELSE NextPow2From(2 * p, n)

\* usize::next_power_of_two: the smallest power of two >= n (1 for n = 0)
next_power_of_two(n) == NextPow2From(1, n)

\* utils::is_power_of_two
is_power_of_two(n) == n # 0 /\ next_power_of_two(n) = n

SeqToBag(s) == LET R == {s[i] : i \in DOMAIN s}
               IN  [x \in R |-> Cardinality({i \in DOMAIN s : s[i] = x})]

(***************************************************************************)
(* ELFRow                                                                  *)
(***************************************************************************)
ELFRow(address, opcode, rd, rs1, rs2, imm) ==
    [address |-> address, opcode |-> opcode, rd |-> rd, rs1 |-> rs1,
     rs2 |-> rs2, imm |-> imm]

no_op(address) == ELFRow(address, 0, 0, 0, 0, 0)

\* common::to_ram_address, used by the tests to place row `index` of a program
to_ram_address(index) == index * BYTES_PER_INSTRUCTION + RAM_START_ADDRESS

(***************************************************************************)
(* Inputs: rows at the first MaxProgLen instruction slots, with fields     *)
(* that agree or differ in the last field only.                            *)
(***************************************************************************)
Slots == 0..(MaxProgLen - 1)
FieldVals == {<<1, 1, 1, 1, 1>>, <<1, 1, 1, 1, 2>>}

RowAt(a, v) == ELFRow(a, v[1], v[2], v[3], v[4], v[5])

InputRows(im) ==
    {RowAt(IF im = "bytecode" THEN to_ram_address(s) ELSE s, v) :
        s \in Slots, v \in FieldVals}

SeqsUpTo(S, lo, hi) == UNION {[1..n -> S] : n \in lo..hi}

(***************************************************************************)
(* BytecodePolynomials::validate_bytecode.  The HashMap keeps, for every   *)
(* address, the row inserted last.                                         *)
(***************************************************************************)
HashMapOf(rows, from) ==
    LET idx == {i \in DOMAIN rows : i >= from}
    IN  [a \in {rows[i].address : i \in idx} |->
            rows[Max({i \in idx : rows[i].address = a})]]

TraceRowsFound(map, tr) ==
    \A j \in DOMAIN tr :
        /\ tr[j].address \in DOMAIN map      \* .expect("couldn't find in bytecode")
        /\ map[tr[j].address] = tr[j]        \* assert_eq!

validate_bytecode_AddressOnly(bc, tr) ==
    \A j \in DOMAIN tr : tr[j].address \in DOMAIN HashMapOf(bc, 1)

validate_bytecode(bc, tr) == TraceRowsFound(HashMapOf(bc, 1), tr)

(***************************************************************************)
(* PCPolys::validate_program.  The loop that fills the map and checks the  *)
(* increments starts at the second row (`.skip(1)`).                       *)
(***************************************************************************)
validate_program(program, tr) ==
    /\ program[1].address < PC_LIMIT
    /\ \A i \in 2..Len(program) :
           program[i].address = program[i - 1].address + ADDRESS_INCREMENT
    /\ TraceRowsFound(HashMapOf(program, 2), tr)

(***************************************************************************)
(* BytecodePolynomials::preprocess and PCPolys::preprocess                 *)
(***************************************************************************)
AddressesWellFormed(rows) ==
    \A i \in DOMAIN rows :
        /\ rows[i].address >= RAM_START_ADDRESS
        /\ rows[i].address % BYTES_PER_INSTRUCTION = 0

Normalise(rows) ==
    [i \in DOMAIN rows |->
        [rows[i] EXCEPT !.address =
            (rows[i].address - RAM_START_ADDRESS) \div BYTES_PER_INSTRUCTION]]

PadTo(rows, n, row) == rows \o [i \in 1..(n - Len(rows)) |-> row]

PadRows_NoPadding(rows, row) == rows

PadRows(rows, row) == PadTo(rows, next_power_of_two(Len(rows)), row)

\* the bytecode after the no-op row is appended and the vector is padded
PreprocessedBytecode(rows, incr) ==
    LET no_op_address == rows[Len(rows)].address + incr
    IN  PadRows(Append(rows, no_op(no_op_address)), no_op(0))

\* the trace, padded with rows that point at the appended no-op row
PreprocessedTrace(rows, tr, incr) ==
    LET no_op_address == rows[Len(rows)].address + incr
    IN  PadRows(tr, no_op(no_op_address))

(***************************************************************************)
(* FiveTuplePoly::from_elf and the counting loop of new / new_program      *)
(***************************************************************************)
from_elf(elf) ==
    LET len == next_power_of_two(Len(elf))
        col(f(_)) == [i \in 1..len |-> IF i <= Len(elf) THEN f(elf[i]) ELSE 0]
        Opcode(r) == r.opcode
        Rd(r) == r.rd
        Rs1(r) == r.rs1
        Rs2(r) == r.rs2
        Imm(r) == r.imm
    IN  [opcode |-> col(Opcode), rd |-> col(Rd), rs1 |-> col(Rs1),
         rs2 |-> col(Rs2), imm |-> col(Imm)]

\* vec![0; n]
RECURSIVE Zeros(_)
Zeros(n) == IF n = 0 THEN <<>> ELSE Append(Zeros(n - 1), 0)

\* Vectors are 1-based sequences here: entry a of the code is entry a + 1.
RECURSIVE CountAccesses(_, _, _, _)
CountAccesses(tr, j, read_cts, final_cts) ==
    IF j > Len(tr) THEN [read_cts |-> read_cts, final_cts |-> final_cts]
    ELSE LET address == tr[j].address
             counter == final_cts[address + 1]
         IN  CountAccesses(tr, j + 1,
                           [read_cts EXCEPT ![j] = counter],
                           [final_cts EXCEPT ![address + 1] = counter + 1])

BuildPolys(bc, tr, code_size) ==
    LET num_ops == next_power_of_two(Len(tr))
        cts == CountAccesses(tr, 1, Zeros(num_ops), Zeros(code_size))
    IN  [a_read_write |-> [j \in 1..num_ops |->
                              IF j <= Len(tr) THEN tr[j].address ELSE 0],
         v_read_write |-> from_elf(tr),
         v_init_final |-> from_elf(bc),
         t_read |-> cts.read_cts,
         t_final |-> cts.final_cts]

\* BytecodePolynomials::new: one more than the largest address, rounded up
BytecodeCodeSize(bc) ==
    next_power_of_two(Max({bc[i].address : i \in DOMAIN bc}) + 1)

\* PCPolys::new_program: the padded program length
ProgramCodeSize(program) == next_power_of_two(Len(program))

AddressesInRange(tr, code_size) ==
    \A j \in DOMAIN tr : tr[j].address < code_size

(***************************************************************************)
(* BytecodeProof::fingerprint and compute_leaves                           *)
(***************************************************************************)
RECURSIVE FingerprintSum(_, _, _)
FingerprintSum(inputs, gamma_term, gamma) ==
    IF inputs = <<>> THEN 0
    ELSE FAdd(FMul(Head(inputs), gamma_term),
              FingerprintSum(Tail(inputs), FMul(gamma_term, gamma), gamma))

fingerprint(inputs, gamma, tau) == FSub(FingerprintSum(inputs, 1, gamma), tau)

ReadTuple(p, i, dt) ==
    <<p.a_read_write[i], p.v_read_write.opcode[i], p.v_read_write.rd[i],
      p.v_read_write.rs1[i], p.v_read_write.rs2[i], p.v_read_write.imm[i],
      p.t_read[i] + dt>>

InitTuple(p, i, t) ==
    <<i - 1, p.v_init_final.opcode[i], p.v_init_final.rd[i],
      p.v_init_final.rs1[i], p.v_init_final.rs2[i], p.v_init_final.imm[i], t>>

\* compute_leaves indexes t_final with 0..memory_size
LeavesIndexable(p) == Len(p.v_init_final.opcode) <= Len(p.t_final)

compute_leaves(p, gamma, tau) ==
    LET num_ops == Len(p.a_read_write)
        memory_size == Len(p.v_init_final.opcode)
    IN  [read  |-> [i \in 1..num_ops |-> fingerprint(ReadTuple(p, i, 0), gamma, tau)],
         write |-> [i \in 1..num_ops |-> fingerprint(ReadTuple(p, i, 1), gamma, tau)],
         init  |-> [i \in 1..memory_size |->
                       fingerprint(InitTuple(p, i, 0), gamma, tau)],
         final |-> [i \in 1..memory_size |->
                       fingerprint(InitTuple(p, i, p.t_final[i]), gamma, tau)],
         gamma |-> gamma, tau |-> tau]

Gammas == {2, 100}
Taus == {0, 35}

(***************************************************************************)
(* The construction as a state machine                                     *)
(***************************************************************************)
NoPolys == [built |-> FALSE]
NoLeaves == [computed |-> FALSE]

InitBytecode ==
    /\ impl \in {"bytecode", "pc"}
    /\ arg_bytecode \in SeqsUpTo(InputRows(impl), 1, MaxProgLen)
    /\ arg_trace \in SeqsUpTo(InputRows(impl), 0, MaxTraceLen)
    /\ bytecode = arg_bytecode
    /\ trace = arg_trace
    /\ bc_pc = "validate"
    /\ bc_panic = "none"
    /\ polys = NoPolys
    /\ leaves = NoLeaves
    /\ IdleSubtable
    /\ IdleMerge
    /\ IdleLookups
    /\ IdleVerify
    /\ IdleSumcheck
    /\ IdleTree
    /\ IdleBge
    /\ IdleFingerprint
    /\ IdleBatched
    /\ IdleMemory
    /\ IdleTimestamp
    /\ IdleSll
    /\ IdleHashes
    /\ IdleR1cs

Panic(where) ==
    /\ bc_pc' = "panic"
    /\ bc_panic' = where

ValidateBytecode ==
    /\ impl = "bytecode"
    /\ bc_pc = "validate"
    /\ IF validate_bytecode(bytecode, trace)
       THEN bc_pc' = "preprocess" /\ bc_panic' = bc_panic
       ELSE Panic("validate")
    /\ UNCHANGED <<impl, arg_bytecode, arg_trace, bytecode, trace, polys, leaves>>
    /\ UNCHANGED otherThanBytecode

ValidateProgram ==
    /\ impl = "pc"
    /\ bc_pc = "validate"
    /\ IF validate_program(bytecode, trace)
       THEN bc_pc' = "preprocess" /\ bc_panic' = bc_panic
       ELSE Panic("validate")
    /\ UNCHANGED <<impl, arg_bytecode, arg_trace, bytecode, trace, polys, leaves>>
    /\ UNCHANGED otherThanBytecode

PreprocessBytecode ==
    /\ impl = "bytecode"
    /\ bc_pc = "preprocess"
    /\ IF AddressesWellFormed(bytecode) /\ AddressesWellFormed(trace)
       THEN /\ bytecode' = PreprocessedBytecode(Normalise(bytecode), 1)
            /\ trace' = PreprocessedTrace(Normalise(bytecode), Normalise(trace), 1)
            /\ bc_pc' = "new"
            /\ bc_panic' = bc_panic
       ELSE /\ Panic("preprocess")
            /\ UNCHANGED <<bytecode, trace>>
    /\ UNCHANGED <<impl, arg_bytecode, arg_trace, polys, leaves>>
    /\ UNCHANGED otherThanBytecode

PreprocessProgram ==
    /\ impl = "pc"
    /\ bc_pc = "preprocess"
    /\ bytecode' = PreprocessedBytecode(bytecode, ADDRESS_INCREMENT)
    /\ trace' = PreprocessedTrace(bytecode, trace, ADDRESS_INCREMENT)
    /\ bc_pc' = "new"
    /\ UNCHANGED <<impl, arg_bytecode, arg_trace, bc_panic, polys, leaves>>
    /\ UNCHANGED otherThanBytecode

\* the rest of BytecodePolynomials::new, after preprocessing
NewBytecode ==
    /\ impl = "bytecode"
    /\ bc_pc = "new"
    /\ IF ~(is_power_of_two(Len(bytecode)) /\ is_power_of_two(Len(trace)))
       THEN Panic("is_power_of_two") /\ polys' = polys
       ELSE IF ~AddressesInRange(trace, BytecodeCodeSize(bytecode))
       THEN Panic("index") /\ polys' = polys
       ELSE /\ polys' = [built |-> TRUE] @@
                        BuildPolys(bytecode, trace, BytecodeCodeSize(bytecode))
            /\ bc_pc' = "compute_leaves"
            /\ bc_panic' = bc_panic
    /\ UNCHANGED <<impl, arg_bytecode, arg_trace, bytecode, trace, leaves>>
    /\ UNCHANGED otherThanBytecode

\* the rest of PCPolys::new_program, after preprocessing
NewProgram ==
    /\ impl = "pc"
    /\ bc_pc = "new"
    /\ IF ~(is_power_of_two(Len(bytecode)) /\ is_power_of_two(Len(trace)))
       THEN Panic("is_power_of_two") /\ polys' = polys
       ELSE IF ~AddressesInRange(trace, ProgramCodeSize(bytecode))
       THEN Panic("index") /\ polys' = polys
       ELSE /\ polys' = [built |-> TRUE] @@
                        BuildPolys(bytecode, trace, ProgramCodeSize(bytecode))
            /\ bc_pc' = "done"
            /\ bc_panic' = bc_panic
    /\ UNCHANGED <<impl, arg_bytecode, arg_trace, bytecode, trace, leaves>>
    /\ UNCHANGED otherThanBytecode

ComputeLeaves ==
    /\ impl = "bytecode"
    /\ bc_pc = "compute_leaves"
    /\ IF LeavesIndexable(polys)
       THEN \E gamma \in Gammas, tau \in Taus :
                /\ leaves' = [computed |-> TRUE] @@ compute_leaves(polys, gamma, tau)
                /\ bc_pc' = "done"
                /\ bc_panic' = bc_panic
       ELSE /\ Panic("compute_leaves")
            /\ leaves' = leaves
    /\ UNCHANGED <<impl, arg_bytecode, arg_trace, bytecode, trace, polys>>
    /\ UNCHANGED otherThanBytecode

NextBytecode ==
    \/ ValidateBytecode
    \/ ValidateProgram
    \/ PreprocessBytecode
    \/ PreprocessProgram
    \/ NewBytecode
    \/ NewProgram
    \/ ComputeLeaves

SpecBytecode == InitBytecode /\ [][NextBytecode]_vars

(***************************************************************************)
(* Properties of the construction                                          *)
(***************************************************************************)
\* one instruction slot, in the address unit of the implementation at hand
SlotSize == IF impl = "bytecode" THEN BYTES_PER_INSTRUCTION ELSE ADDRESS_INCREMENT

Sequential(rows) ==
    \A i \in 2..Len(rows) : rows[i].address = rows[i - 1].address + SlotSize

IsPrefix(s, t) ==
    /\ Len(s) <= Len(t)
    /\ \A i \in DOMAIN s : t[i] = s[i]

TraceHasForeignRow ==
    \E j \in DOMAIN arg_trace :
        \A i \in DOMAIN arg_bytecode : arg_bytecode[i] # arg_trace[j]

TraceRowsAllFromProgram ==
    \A j \in DOMAIN arg_trace :
        \E i \in DOMAIN arg_bytecode : arg_bytecode[i] = arg_trace[j]

LeafProduct(a, b) == FMul(FProd(a), FProd(b))

\* C1: whenever new accepted the bytecode and the trace and compute_leaves
\* returned, for the gamma and tau it was given, the multiset of init leaves
\* plus write leaves equals the multiset of read leaves plus final leaves, and
\* product(init) * product(write) = product(final) * product(read).
C1_LeafMultisetEquality ==
    leaves.computed =>
        /\ SeqToBag(leaves.init) (+) SeqToBag(leaves.write)
               = SeqToBag(leaves.read) (+) SeqToBag(leaves.final)
        /\ LeafProduct(leaves.init, leaves.write)
               = LeafProduct(leaves.final, leaves.read)

\* C3: a trace holding a row that is no row of the bytecode (its address is
\* absent, or its fields differ from the row at that address) makes both
\* constructors fail in validation, with the vectors still unpadded and no
\* polynomial built.
C3_FakeTraceFailsAtValidation ==
    (TraceHasForeignRow /\ bc_pc # "validate") =>
        /\ bc_pc = "panic"
        /\ bc_panic = "validate"
        /\ bytecode = arg_bytecode
        /\ trace = arg_trace
        /\ polys = NoPolys

C3_Witness ==
    /\ impl = "bytecode"
    /\ bc_panic = "validate"
    /\ \E j \in DOMAIN arg_trace :
          /\ \E i \in DOMAIN arg_bytecode :
                 arg_bytecode[i].address = arg_trace[j].address
          /\ \A i \in DOMAIN arg_bytecode : arg_bytecode[i] # arg_trace[j]

\* C4: validation of either constructor accepts every trace whose rows are
\* all rows of a program laid out at consecutive slots, the first row of the
\* program included.
C4_MatchingTraceAccepted ==
    (Sequential(arg_bytecode) /\ TraceRowsAllFromProgram) =>
        bc_panic # "validate"

\* C5: a program in which some row is not exactly one slot above the row
\* before it makes both constructors fail in validation, whatever the trace.
C5_BadIncrementFailsAtValidation ==
    (~Sequential(arg_bytecode) /\ bc_pc # "validate") =>
        (bc_pc = "panic" /\ bc_panic = "validate")

PastPreprocess ==
    \/ bc_pc \in {"new", "compute_leaves", "done"}
    \/ bc_pc = "panic" /\ bc_panic \in {"is_power_of_two", "index", "compute_leaves"}

\* C6: after BytecodePolynomials::preprocess both vectors have a power-of-two
\* length and start with the rows they were given (addresses rewritten to
\* slot numbers by the same function), in the order given; the two
\* is_power_of_two assertions of new do not fire.
C6_PreprocessPadsToPowerOfTwo ==
    (impl = "bytecode" /\ PastPreprocess) =>
        /\ is_power_of_two(Len(bytecode))
        /\ is_power_of_two(Len(trace))
        /\ IsPrefix(Normalise(arg_bytecode), bytecode)
        /\ IsPrefix(Normalise(arg_trace), trace)
        /\ bc_panic # "is_power_of_two"

C6_Witness ==
    /\ impl = "bytecode"
    /\ bc_pc = "done"
    /\ Len(arg_bytecode) = 2 /\ Len(bytecode) = 4
    /\ Len(arg_trace) = 3 /\ Len(trace) = 4


(***************************************************************************)
(* Subtables: materialize against evaluate_mle                             *)
(***************************************************************************)
MaxLogM == 4

\* the values a coordinate of an evaluation point is drawn from
PointVals == {0, 1, 2}

\* utils::index_to_field_bitvector: the bits of idx, most significant first
index_to_field_bitvector(idx, n) ==
    [k \in 1..n |-> (idx \div (2 ^ (n - k))) % 2]

\* utils::split_bits: the high and the low num_bits bits of item
split_bits(item, num_bits) ==
    [high |-> (item \div (2 ^ num_bits)) % (2 ^ num_bits),
     low  |-> item % (2 ^ num_bits)]

\* ark_std::log2 of a power of two
RECURSIVE log2(_)
log2(M) == IF M <= 1 THEN 0 ELSE 1 + log2((M + 1) \div 2)

\* EQSubtable::materialize
EQ_materialize(M) ==
    LET bits_per_operand == log2(M) \div 2
    IN  [k \in 1..M |->
            LET xy == split_bits(k - 1, bits_per_operand)
            IN  IF xy.high = xy.low THEN 1 ELSE 0]

RECURSIVE EQ_product(_, _, _, _)
EQ_product(x, y, i, b) ==
    IF i > b THEN 1
    ELSE FMul(FAdd(FMul(x[i], y[i]), FMul(FSub(1, x[i]), FSub(1, y[i]))),
              EQ_product(x, y, i + 1, b))

\* EQSubtable::evaluate_mle
EQ_evaluate_mle(point) ==
    LET b == Len(point) \div 2
        x == SubSeq(point, 1, b)
        y == SubSeq(point, b + 1, Len(point))
    IN  EQ_product(x, y, 1, b)

\* ZeroLSBSubtable::materialize
ZeroLSB_materialize(M) == [k \in 1..M |-> ((k - 1) - ((k - 1) % 2)) % FieldP]

RECURSIVE ZeroLSB_sum(_, _)
ZeroLSB_sum(point, i) ==
    IF i >= Len(point) THEN 0
    ELSE FAdd(FMul(2 ^ i, point[Len(point) - i]), ZeroLSB_sum(point, i + 1))

ZeroLSB_evaluate_mle_WithLSB(point) == ZeroLSB_sum(point, 0)

\* ZeroLSBSubtable::evaluate_mle: the loop starts at i = 1; point[len - 1 - i]
\* of the code is point[len - i] of a 1-based sequence
ZeroLSB_evaluate_mle(point) == ZeroLSB_sum(point, 1)

materialize(kind, M) ==
    IF kind = "EQ" THEN EQ_materialize(M) ELSE ZeroLSB_materialize(M)

evaluate_mle(kind, point) ==
    IF kind = "EQ" THEN EQ_evaluate_mle(point) ELSE ZeroLSB_evaluate_mle(point)

InitSubtable ==
    /\ st_kind \in {"EQ", "ZeroLSB"}
    /\ st_n \in 0..MaxLogM
    /\ st_table = <<>>
    /\ st_point = <<>>
    /\ st_eval = 0
    /\ st_pc = "materialize"
    /\ IdleBytecode
    /\ IdleMerge
    /\ IdleLookups
    /\ IdleVerify
    /\ IdleSumcheck
    /\ IdleTree
    /\ IdleBge
    /\ IdleFingerprint
    /\ IdleBatched
    /\ IdleMemory
    /\ IdleTimestamp
    /\ IdleSll
    /\ IdleHashes
    /\ IdleR1cs

Materialize ==
    /\ st_pc = "materialize"
    /\ st_table' = materialize(st_kind, 2 ^ st_n)
    /\ st_pc' = "evaluate"
    /\ UNCHANGED <<st_kind, st_n, st_point, st_eval>>
    /\ UNCHANGED otherThanSubtable

\* evaluate_mle at a point of st_n coordinates.  EQSubtable::evaluate_mle
\* starts with debug_assert!(point.len() % 2 == 0): on a point of odd length a
\* debug build aborts and a release build goes on.
EvaluateMle ==
    /\ st_pc = "evaluate"
    /\ \E point \in [1..st_n -> PointVals] :
          /\ st_point' = point
          /\ \/ /\ st_eval' = evaluate_mle(st_kind, point)
                /\ st_pc' = "done"
             \/ /\ st_kind = "EQ" /\ st_n % 2 = 1
                /\ st_eval' = st_eval
                /\ st_pc' = "panic"
    /\ UNCHANGED <<st_kind, st_n, st_table>>
    /\ UNCHANGED otherThanSubtable

NextSubtable ==
    \/ Materialize
    \/ EvaluateMle

SpecSubtable == InitSubtable /\ [][NextSubtable]_vars

\* the weight of table entry idx at `point`: prod_k (p_k b_k + (1 - p_k)(1 - b_k))
RECURSIVE ChiAt(_, _, _)
ChiAt(bits, point, k) ==
    IF k > Len(point) THEN 1
    ELSE FMul(IF bits[k] = 1 THEN point[k] % FieldP ELSE FSub(1, point[k]),
              ChiAt(bits, point, k + 1))

RECURSIVE MleSum(_, _, _)
MleSum(table, point, k) ==
    IF k > Len(table) THEN 0
    ELSE FAdd(FMul(table[k],
                   ChiAt(index_to_field_bitvector(k - 1, Len(point)), point, 1)),
              MleSum(table, point, k + 1))

\* the multilinear extension of `table`, evaluated at `point`
MleOfTable(table, point) == MleSum(table, point, 1)

IsBoolean(point) == \A k \in DOMAIN point : point[k] \in {0, 1}

RECURSIVE IndexOfBits(_, _)
IndexOfBits(point, k) ==
    IF k > Len(point) THEN 0
    ELSE point[k] * 2 ^ (Len(point) - k) + IndexOfBits(point, k + 1)

\* f is affine in coordinate k around `point`: its second difference vanishes
AffineIn(kind, point, k) ==
    LET at(v) == evaluate_mle(kind, [point EXCEPT ![k] = v])
    IN  FSub(FAdd(at(0), at(2)), FMul(2, at(1))) = 0

\* C7: for EQ (n even) and ZeroLSB, with M = 2^n, evaluate_mle at the n-bit
\* big-endian bit vector of idx is materialize(M)[idx]; evaluate_mle is of
\* degree at most one in every coordinate, and at every point it takes the
\* value of the multilinear extension of the materialized table.
C7_EvaluateMleIsMleOfTable ==
    (st_pc = "done" /\ (st_kind = "EQ" => st_n % 2 = 0)) =>
        /\ Len(st_table) = 2 ^ st_n
        /\ (IsBoolean(st_point) =>
               st_eval = st_table[IndexOfBits(st_point, 1) + 1])
        /\ \A idx \in 0..(2 ^ st_n - 1) :
               evaluate_mle(st_kind, index_to_field_bitvector(idx, st_n))
                   = st_table[idx + 1]
        /\ \A k \in 1..st_n : AffineIn(st_kind, st_point, k)
        /\ st_eval = MleOfTable(st_table, st_point)

C7_Witness ==
    /\ st_pc = "done"
    /\ st_kind = "ZeroLSB"
    /\ st_n = MaxLogM
    /\ st_point = [k \in 1..st_n |-> 1]
    /\ st_eval = 2 ^ st_n - 2

(***************************************************************************)
(* DensePolynomial::merge and its callers Derefs::new and                  *)
(* BytecodePolynomials::batch.  A polynomial is the sequence of its        *)
(* evaluations over the boolean hypercube, most significant variable       *)
(* first.                                                                  *)
(***************************************************************************)
MaxPolys == 3
MaxNumVars == 2

\* the number of polynomials BytecodePolynomials::batch merges:
\* t_final and the five polynomials of v_init_final
NUM_BATCHED == 6

RECURSIVE Concat(_)
Concat(ps) == IF ps = <<>> THEN <<>> ELSE Head(ps) \o Concat(Tail(ps))

\* DensePolynomial::merge: the evaluations one after the other, then zeros up
\* to the next power of two
merge(ps) ==
    LET Z == Concat(ps)
    IN  Z \o [i \in 1..(next_power_of_two(Len(Z)) - Len(Z)) |-> 0]

\* DensePolynomial::evaluate: the inner product of the evaluations with the
\* equality-polynomial weights of the point
evaluate(poly, r) == MleOfTable(poly, r)

Derefs_new_SkipFirst(eq_evals, c) ==
    [eq_evals |-> eq_evals, comb |-> merge(Tail(eq_evals))]

\* Derefs::new, after its assert_eq!(eq_evals.len(), c)
Derefs_new(eq_evals, c) ==
    [eq_evals |-> eq_evals, comb |-> merge(eq_evals)]

\* BytecodePolynomials::batch on the fields <<t_final, opcode, rd, rs1, rs2, imm>>
batch(fields) ==
    [combined_init_final |->
        merge(<<fields[1], fields[2], fields[3], fields[4], fields[5], fields[6]>>)]

\* polynomials of num_vars variables whose evaluations are all different and
\* non-zero
InputPolys(num_vars) ==
    {[x \in 1..(2 ^ num_vars) |-> base + x] : base \in {10, 20, 30}}

InitMerge ==
    /\ mg_kind \in {"derefs", "batch"}
    /\ \E num_vars \in 0..MaxNumVars :
          \E k \in 1..(IF mg_kind = "batch" THEN NUM_BATCHED ELSE MaxPolys) :
              /\ mg_kind = "batch" => k = NUM_BATCHED
              /\ mg_polys \in [1..k -> InputPolys(num_vars)]
    /\ mg_c \in 1..MaxPolys
    /\ mg_kind = "batch" => mg_c = 1
    /\ mg_comb = <<>>
    /\ mg_point = 0
    /\ mg_eval = 0
    /\ mg_pc = "merge"
    /\ IdleBytecode
    /\ IdleSubtable
    /\ IdleLookups
    /\ IdleVerify
    /\ IdleSumcheck
    /\ IdleTree
    /\ IdleBge
    /\ IdleFingerprint
    /\ IdleBatched
    /\ IdleMemory
    /\ IdleTimestamp
    /\ IdleSll
    /\ IdleHashes
    /\ IdleR1cs

DerefsNew ==
    /\ mg_kind = "derefs"
    /\ mg_pc = "merge"
    /\ IF Len(mg_polys) = mg_c
       THEN /\ mg_comb' = Derefs_new(mg_polys, mg_c).comb
            /\ mg_pc' = "evaluate"
       ELSE /\ mg_comb' = mg_comb
            /\ mg_pc' = "panic"
    /\ UNCHANGED <<mg_kind, mg_polys, mg_c, mg_point, mg_eval>>
    /\ UNCHANGED otherThanMerge

Batch ==
    /\ mg_kind = "batch"
    /\ mg_pc = "merge"
    /\ mg_comb' = batch(mg_polys).combined_init_final
    /\ mg_pc' = "evaluate"
    /\ UNCHANGED <<mg_kind, mg_polys, mg_c, mg_point, mg_eval>>
    /\ UNCHANGED otherThanMerge

\* comb.evaluate(&index_to_field_bitvector(i, num_vars of comb))
EvaluateMerged ==
    /\ mg_pc = "evaluate"
    /\ \E i \in 0..(Len(mg_comb) - 1) :
          /\ mg_point' = i
          /\ mg_eval' = evaluate(mg_comb,
                                 index_to_field_bitvector(i, log2(Len(mg_comb))))
    /\ mg_pc' = "done"
    /\ UNCHANGED <<mg_kind, mg_polys, mg_c, mg_comb>>
    /\ UNCHANGED otherThanMerge

NextMerge ==
    \/ DerefsNew
    \/ Batch
    \/ EvaluateMerged

SpecMerge == InitMerge /\ [][NextMerge]_vars

\* C8: merging k polynomials of length 2^n gives a polynomial of length
\* 2^(n + ceil(log2 k)); at the bit vector of i * 2^n + x (selector i in the
\* high-order variables, x in the low-order ones) it evaluates to p_i at x
\* when i < k and to 0 when i >= k.
C8_MergeSelectsPolynomial ==
    mg_pc \in {"evaluate", "done"} =>
        LET k == Len(mg_polys)
            len == Len(mg_polys[1])
            i == mg_point \div len
            x == mg_point % len
        IN  /\ is_power_of_two(Len(mg_comb))
            /\ Len(mg_comb) = len * 2 ^ log2(k)
            /\ (mg_pc = "done" =>
                   mg_eval = (IF i < k THEN mg_polys[i + 1][x + 1] ELSE 0))

C8_Witness ==
    /\ mg_pc = "done"
    /\ mg_kind = "derefs"
    /\ Len(mg_polys) = 3
    /\ Len(mg_polys[1]) = 2 ^ MaxNumVars
    /\ mg_point \div Len(mg_polys[1]) = 2
    /\ mg_eval # 0

(***************************************************************************)
(* InstructionLookups: polynomialize, compute_leaves and the prover's      *)
(* multiset hashes.  C and M are the const generics of the struct; the     *)
(* subtables are EQ and ZeroLSB, the instruction set is a parameter.       *)
(* Indices (memories, subtables, dimensions, opcodes) are 0-based as in    *)
(* the code; entry k of a vector is element k + 1 of a sequence.           *)
(***************************************************************************)
C == 2
LogM == 2
MaxOps == 3

M == 2 ^ LogM

Subtables == <<"EQ", "ZeroLSB">>
NUM_SUBTABLES == Len(Subtables)
NUM_MEMORIES == C * NUM_SUBTABLES

\* instruction sets: for each opcode, the subtable indices its subtables(C)
\* lists, in order
InstructionSets ==
    { << <<0>>, <<1>>, <<0, 1>> >>,
      << <<1, 1>>, <<1, 0>>, <<0>> >> }

Operands == {1, 6}

memory_to_subtable_index(i) == i \div C

memory_to_dimension_index(i) == i % C

materialize_subtables == [s \in 1..NUM_SUBTABLES |-> materialize(Subtables[s], M)]

\* JoltInstruction::to_indices: the operand cut into C chunks of log_M bits,
\* most significant chunk first
to_indices(op, c, log_M) ==
    [d \in 1..c |-> (op.operand \div ((2 ^ log_M) ^ (c - d))) % (2 ^ log_M)]

subtable_lookup_indices(ops) ==
    LET m == next_power_of_two(Len(ops))
    IN  [d \in 1..C |->
            [j \in 1..m |-> IF j <= Len(ops) THEN to_indices(ops[j], C, LogM)[d]
                            ELSE 0]]

RECURSIVE MemoryRanges(_)
MemoryRanges(subtables) ==
    IF subtables = <<>> THEN <<>>
    ELSE [k \in 1..C |-> C * Head(subtables) + (k - 1)]
            \o MemoryRanges(Tail(subtables))

instruction_to_memory_indices_FirstDimensionOnly(iset, opcode) ==
    [k \in 1..Len(iset[opcode + 1]) |-> C * iset[opcode + 1][k]]

instruction_to_memory_indices(iset, opcode) == MemoryRanges(iset[opcode + 1])

Contains(seq, x) == \E k \in DOMAIN seq : seq[k] = x

RECURSIVE CountLookups_StaleFinal(_, _, _, _, _, _)
CountLookups_StaleFinal(iset, ops, memory_index, access_sequence, j, acc) ==
    IF j > Len(ops) THEN acc
    ELSE LET memories_used == instruction_to_memory_indices(iset, ops[j].opcode)
             memory_address == access_sequence[j]
             counter == acc.final_cts[memory_address + 1]
             subtable_index == memory_to_subtable_index(memory_index)
         IN  IF Contains(memories_used, memory_index)
             THEN CountLookups_StaleFinal(iset, ops, memory_index, access_sequence, j + 1,
                     [read_cts  |-> [acc.read_cts EXCEPT ![j] = counter],
                      final_cts |-> [acc.final_cts EXCEPT
                                        ![memory_address + 1] = 1],
                      E |-> [acc.E EXCEPT ![j] =
                                materialize_subtables[subtable_index + 1]
                                                     [memory_address + 1]]])
             ELSE CountLookups_StaleFinal(iset, ops, memory_index, access_sequence,
                                          j + 1, acc)

\* the loop of polynomialize over the ops, for one memory
RECURSIVE CountLookups(_, _, _, _, _, _)
CountLookups(iset, ops, memory_index, access_sequence, j, acc) ==
    IF j > Len(ops) THEN acc
    ELSE LET memories_used == instruction_to_memory_indices(iset, ops[j].opcode)
             memory_address == access_sequence[j]
             counter == acc.final_cts[memory_address + 1]
             subtable_index == memory_to_subtable_index(memory_index)
         IN  IF Contains(memories_used, memory_index)
             THEN CountLookups(iset, ops, memory_index, access_sequence, j + 1,
                     [read_cts  |-> [acc.read_cts EXCEPT ![j] = counter],
                      final_cts |-> [acc.final_cts EXCEPT
                                        ![memory_address + 1] = counter + 1],
                      E |-> [acc.E EXCEPT ![j] =
                                materialize_subtables[subtable_index + 1]
                                                     [memory_address + 1]]])
             ELSE CountLookups(iset, ops, memory_index, access_sequence, j + 1, acc)

RECURSIVE instruction_flag_bitvectors_EveryOpcodeBelow(_, _, _)
instruction_flag_bitvectors_EveryOpcodeBelow(ops, j, bitvectors) ==
    IF j > Len(ops) THEN bitvectors
    ELSE instruction_flag_bitvectors_EveryOpcodeBelow(ops, j + 1,
             [o \in DOMAIN bitvectors |->
                 IF o - 1 <= ops[j].opcode THEN [bitvectors[o] EXCEPT ![j] = 1]
                 ELSE bitvectors[o]])

\* the loop of polynomialize that sets the flag of the opcode of every step
RECURSIVE instruction_flag_bitvectors(_, _, _)
instruction_flag_bitvectors(ops, j, bitvectors) ==
    IF j > Len(ops) THEN bitvectors
    ELSE instruction_flag_bitvectors(ops, j + 1,
             [o \in DOMAIN bitvectors |->
                 IF o = ops[j].opcode + 1 THEN [bitvectors[o] EXCEPT ![j] = 1]
                 ELSE bitvectors[o]])

polynomialize(iset, ops) ==
    LET m == next_power_of_two(Len(ops))
        indices == subtable_lookup_indices(ops)
        per(memory_index) ==
            CountLookups(iset, ops, memory_index,
                         indices[memory_to_dimension_index(memory_index) + 1], 1,
                         [read_cts  |-> Zeros(m),
                          final_cts |-> Zeros(M),
                          E |-> Zeros(m)])
    IN  [dim |-> indices,
         read_cts  |-> [i \in 1..NUM_MEMORIES |-> per(i - 1).read_cts],
         final_cts |-> [i \in 1..NUM_MEMORIES |-> per(i - 1).final_cts],
         E_polys   |-> [i \in 1..NUM_MEMORIES |-> per(i - 1).E],
         instruction_flag_polys |->
             instruction_flag_bitvectors(ops, 1, [o \in 1..Len(iset) |-> Zeros(m)])]

RECURSIVE SumFlags(_, _, _, _)
SumFlags(iset, flags, subtable_index, o) ==
    IF o > Len(iset) THEN [j \in DOMAIN flags[1] |-> 0]
    ELSE LET rest == SumFlags(iset, flags, subtable_index, o + 1)
         IN  IF Contains(iset[o], subtable_index)
             THEN [j \in DOMAIN rest |-> FAdd(rest[j], flags[o][j])]
             ELSE rest

subtable_flag_polys(iset, instruction_flag_polys) ==
    [s \in 1..NUM_SUBTABLES |-> SumFlags(iset, instruction_flag_polys, s - 1, 1)]

lookups_compute_leaves_WriteShiftGamma(p, gamma, tau) ==
    LET gamma_squared == FMul(gamma, gamma)
        num_lookups == Len(p.dim[1])
        read(i) ==
            [j \in 1..num_lookups |->
                FSub(FAdd(FAdd(FMul(p.read_cts[i + 1][j], gamma_squared),
                               FMul(p.E_polys[i + 1][j], gamma)),
                          p.dim[memory_to_dimension_index(i) + 1][j]), tau)]
        write(i) == [j \in 1..num_lookups |-> FAdd(read(i)[j], gamma)]
        init(s) ==
            [a \in 1..M |->
                FSub(FAdd(FMul(materialize_subtables[s + 1][a], gamma), a - 1), tau)]
        final(s, d) ==
            [a \in 1..M |->
                FAdd(init(s)[a], FMul(p.final_cts[C * s + d + 1][a], gamma_squared))]
    IN  [read_write_leaves |->
             [k \in 1..(2 * NUM_MEMORIES) |->
                 IF k % 2 = 1 THEN read((k - 1) \div 2) ELSE write((k - 1) \div 2)],
         init_final_leaves |->
             [k \in 1..(NUM_SUBTABLES * (C + 1)) |->
                 LET s == (k - 1) \div (C + 1)
                     r == (k - 1) % (C + 1)
                 IN  IF r = 0 THEN init(s) ELSE final(s, r - 1)],
         gamma |-> gamma, tau |-> tau]

\* InstructionLookups::compute_leaves
lookups_compute_leaves(p, gamma, tau) ==
    LET gamma_squared == FMul(gamma, gamma)
        num_lookups == Len(p.dim[1])
        read(i) ==
            [j \in 1..num_lookups |->
                FSub(FAdd(FAdd(FMul(p.read_cts[i + 1][j], gamma_squared),
                               FMul(p.E_polys[i + 1][j], gamma)),
                          p.dim[memory_to_dimension_index(i) + 1][j]), tau)]
        write(i) == [j \in 1..num_lookups |-> FAdd(read(i)[j], gamma_squared)]
        init(s) ==
            [a \in 1..M |->
                FSub(FAdd(FMul(materialize_subtables[s + 1][a], gamma), a - 1), tau)]
        final(s, d) ==
            [a \in 1..M |->
                FAdd(init(s)[a], FMul(p.final_cts[C * s + d + 1][a], gamma_squared))]
    IN  [read_write_leaves |->
             [k \in 1..(2 * NUM_MEMORIES) |->
                 IF k % 2 = 1 THEN read((k - 1) \div 2) ELSE write((k - 1) \div 2)],
         init_final_leaves |->
             [k \in 1..(NUM_SUBTABLES * (C + 1)) |->
                 LET s == (k - 1) \div (C + 1)
                     r == (k - 1) % (C + 1)
                 IN  IF r = 0 THEN init(s) ELSE final(s, r - 1)],
         gamma |-> gamma, tau |-> tau]

\* utils::split_poly_flagged: a leaf whose flag is zero is replaced by one
split_poly_flagged(poly, flag) ==
    [j \in DOMAIN poly |-> IF flag[j] = 0 THEN 1 ELSE poly[j]]

\* GrandProductCircuit::evaluate: the product of the leaves
GrandProductEvaluate(leaf_poly) == FProd(leaf_poly)

\* InstructionLookups::read_write_grand_product: the hashes R W R W ...
read_write_grand_product(iset, p, read_write_leaves) ==
    LET flags == subtable_flag_polys(iset, p.instruction_flag_polys)
    IN  [k \in 1..(2 * NUM_MEMORIES) |->
            LET subtable_index == memory_to_subtable_index((k - 1) \div 2)
            IN  GrandProductEvaluate(
                    split_poly_flagged(read_write_leaves[k], flags[subtable_index + 1]))]

\* MemoryCheckingProver::init_final_grand_product: one circuit per leaf vector
init_final_grand_product(init_final_leaves) ==
    [k \in DOMAIN init_final_leaves |-> GrandProductEvaluate(init_final_leaves[k])]

uninterleave_hashes(read_write_hashes, init_final_hashes) ==
    [read_hashes  |-> [i \in 1..NUM_MEMORIES |-> read_write_hashes[2 * (i - 1) + 1]],
     write_hashes |-> [i \in 1..NUM_MEMORIES |-> read_write_hashes[2 * (i - 1) + 2]],
     init_hashes  |-> [s \in 1..NUM_SUBTABLES |-> init_final_hashes[(s - 1) * (C + 1) + 1]],
     final_hashes |-> [i \in 1..NUM_MEMORIES |->
                          init_final_hashes[((i - 1) \div C) * (C + 1) + 2 + ((i - 1) % C)]]]

check_multiset_equality(h) ==
    /\ Len(h.init_hashes) = NUM_SUBTABLES
    /\ Len(h.read_hashes) = NUM_MEMORIES
    /\ Len(h.write_hashes) = NUM_MEMORIES
    /\ Len(h.final_hashes) = NUM_MEMORIES
    /\ \A i \in 0..(NUM_MEMORIES - 1) :
           FMul(h.init_hashes[memory_to_subtable_index(i) + 1], h.write_hashes[i + 1])
               = FMul(h.final_hashes[i + 1], h.read_hashes[i + 1])

InitLookups ==
    /\ lk_iset \in InstructionSets
    /\ lk_ops \in SeqsUpTo([opcode : 0..2, operand : Operands], 0, MaxOps)
    /\ lk_polys = [built |-> FALSE]
    /\ lk_leaves = [computed |-> FALSE]
    /\ lk_rw_hashes = <<>>
    /\ lk_if_hashes = <<>>
    /\ lk_pc = "polynomialize"
    /\ IdleBytecode
    /\ IdleSubtable
    /\ IdleMerge
    /\ IdleVerify
    /\ IdleSumcheck
    /\ IdleTree
    /\ IdleBge
    /\ IdleFingerprint
    /\ IdleBatched
    /\ IdleMemory
    /\ IdleTimestamp
    /\ IdleSll
    /\ IdleHashes
    /\ IdleR1cs

Polynomialize ==
    /\ lk_pc = "polynomialize"
    /\ lk_polys' = [built |-> TRUE] @@ polynomialize(lk_iset, lk_ops)
    /\ lk_pc' = "compute_leaves"
    /\ UNCHANGED <<lk_iset, lk_ops, lk_leaves, lk_rw_hashes, lk_if_hashes>>
    /\ UNCHANGED otherThanLookups

LookupsComputeLeaves ==
    /\ lk_pc = "compute_leaves"
    /\ \E gamma \in Gammas, tau \in Taus :
          lk_leaves' = [computed |-> TRUE] @@ lookups_compute_leaves(lk_polys, gamma, tau)
    /\ lk_pc' = "read_write_grand_product"
    /\ UNCHANGED <<lk_iset, lk_ops, lk_polys, lk_rw_hashes, lk_if_hashes>>
    /\ UNCHANGED otherThanLookups

ReadWriteGrandProduct ==
    /\ lk_pc = "read_write_grand_product"
    /\ lk_rw_hashes' =
           read_write_grand_product(lk_iset, lk_polys, lk_leaves.read_write_leaves)
    /\ lk_pc' = "init_final_grand_product"
    /\ UNCHANGED <<lk_iset, lk_ops, lk_polys, lk_leaves, lk_if_hashes>>
    /\ UNCHANGED otherThanLookups

InitFinalGrandProduct ==
    /\ lk_pc = "init_final_grand_product"
    /\ lk_if_hashes' = init_final_grand_product(lk_leaves.init_final_leaves)
    /\ lk_pc' = "check_multiset_equality"
    /\ UNCHANGED <<lk_iset, lk_ops, lk_polys, lk_leaves, lk_rw_hashes>>
    /\ UNCHANGED otherThanLookups

CheckMultisetEquality ==
    /\ lk_pc = "check_multiset_equality"
    /\ lk_pc' = IF check_multiset_equality(uninterleave_hashes(lk_rw_hashes, lk_if_hashes))
                THEN "done" ELSE "panic"
    /\ UNCHANGED <<lk_iset, lk_ops, lk_polys, lk_leaves, lk_rw_hashes, lk_if_hashes>>
    /\ UNCHANGED otherThanLookups

NextLookups ==
    \/ Polynomialize
    \/ LookupsComputeLeaves
    \/ ReadWriteGrandProduct
    \/ InitFinalGrandProduct
    \/ CheckMultisetEquality

SpecLookups == InitLookups /\ [][NextLookups]_vars

\* the product of the leaves of the steps whose flag is 1
RECURSIVE FlaggedProduct(_, _, _)
FlaggedProduct(leaf, flag, j) ==
    IF j > Len(leaf) THEN 1
    ELSE FMul(IF flag[j] = 1 THEN leaf[j] ELSE 1, FlaggedProduct(leaf, flag, j + 1))

\* C2: for the polynomials and leaves built from any ops, for every memory i,
\* with read_hash(i) and write_hash(i) the products of the read and write
\* leaves of the steps at which the flag of the subtable of i is 1, and
\* init_hash and final_hash the products of all init and final leaves:
\* init_hash(subtable of i) * write_hash(i) = final_hash(i) * read_hash(i),
\* so check_multiset_equality does not fail.
C2_LookupMultisetEquality ==
    lk_pc \in {"check_multiset_equality", "done", "panic"} =>
        LET h == uninterleave_hashes(lk_rw_hashes, lk_if_hashes)
            flags == subtable_flag_polys(lk_iset, lk_polys.instruction_flag_polys)
        IN  /\ lk_pc # "panic"
            /\ \A i \in 0..(NUM_MEMORIES - 1) :
                   LET s == memory_to_subtable_index(i)
                       d == memory_to_dimension_index(i)
                       read_hash ==
                           FlaggedProduct(lk_leaves.read_write_leaves[2 * i + 1],
                                          flags[s + 1], 1)
                       write_hash ==
                           FlaggedProduct(lk_leaves.read_write_leaves[2 * i + 2],
                                          flags[s + 1], 1)
                       init_hash == FProd(lk_leaves.init_final_leaves[s * (C + 1) + 1])
                       final_hash ==
                           FProd(lk_leaves.init_final_leaves[s * (C + 1) + 2 + d])
                   IN  /\ h.read_hashes[i + 1] = read_hash
                       /\ h.write_hashes[i + 1] = write_hash
                       /\ h.init_hashes[s + 1] = init_hash
                       /\ h.final_hashes[i + 1] = final_hash
                       /\ FMul(init_hash, write_hash) = FMul(final_hash, read_hash)

C2_Witness ==
    /\ lk_pc = "done"
    /\ Len(lk_ops) = 3
    /\ \E j \in 1..3 : lk_polys.read_cts[1][j] > 0
    /\ \E j \in 1..3 : subtable_flag_polys(lk_iset, lk_polys.instruction_flag_polys)[1][j] = 0

(***************************************************************************)
(* InstructionLookups::verify.  What the proof carries is concrete where   *)
(* this crate computes with it (the openings of the primary sumcheck, the  *)
(* multiset hashes, the layer claims of the grand products); the verdicts  *)
(* of the sumcheck rounds and of the opening proofs are inputs.            *)
(***************************************************************************)
MaxLayers == 2

TestInstructionSet == << <<0>>, <<1>>, <<0, 1>> >>

\* JoltInstruction::combine_lookups of a degree-one instruction: the sum of
\* the operands it is given
instruction_combine_lookups(opcode, filtered_operands) == FSum(filtered_operands)

RECURSIVE CombineFrom(_, _, _, _)
CombineFrom(iset, vals, flags, o) ==
    IF o > Len(iset) THEN 0
    ELSE LET memory_indices == instruction_to_memory_indices(iset, o - 1)
             filtered_operands ==
                 [k \in DOMAIN memory_indices |-> vals[memory_indices[k] + 1]]
         IN  FAdd(FMul(flags[o], instruction_combine_lookups(o - 1, filtered_operands)),
                  CombineFrom(iset, vals, flags, o + 1))

\* InstructionLookups::combine_lookups
combine_lookups(vals, flags) == CombineFrom(TestInstructionSet, vals, flags, 1)

verify_openings_SkipFlag(proof) ==
    IF ~proof.E_opening_ok THEN "E_opening" ELSE "Ok"

\* flag_opening_proof.verify(opening_point, &self.flag_openings,
\* &commitment.instruction_flag_commitment, transcript): the opening proof is
\* well formed and the claimed openings are the evaluations, at the opening
\* point, of the polynomials under the commitment
flag_opening_proof_verify(proof) ==
    /\ proof.flag_opening_ok
    /\ proof.flag_openings = proof.instruction_flag_commitment

verify_openings_UncommittedFlags(proof) ==
    IF ~proof.E_opening_ok THEN "E_opening"
    ELSE IF ~proof.flag_opening_ok THEN "flag_opening"
    ELSE "Ok"

\* PrimarySumcheckOpenings::verify_openings: the E openings, then the flag
\* openings, each propagated with `?`
verify_openings(proof) ==
    IF ~proof.E_opening_ok THEN "E_opening"
    ELSE IF ~flag_opening_proof_verify(proof) THEN "flag_opening"
    ELSE "Ok"

\* the challenges the transcript yields in one layer: the coefficient of the
\* single instance, and eq(rand, rand_prod)
LayerChallenges == [coeff |-> 3, eq |-> 1]

LayerClaimExpected(layer) ==
    FMul(LayerChallenges.coeff,
         FMul(FMul(layer.claims_prod_left, layer.claims_prod_right),
              LayerChallenges.eq))

\* BatchedGrandProductArgument::verify: "returned", or the assertion or
\* unwrap that stopped it
RECURSIVE VerifyLayers(_, _)
VerifyLayers(layers, i) ==
    IF i > Len(layers) THEN "returned"
    ELSE IF ~layers[i].sumcheck_ok THEN "layer_sumcheck"
    ELSE IF LayerClaimExpected(layers[i]) # layers[i].claim_last THEN "layer_claim"
    ELSE VerifyLayers(layers, i + 1)

BatchedGrandProductArgument_verify(layers, num_layers) ==
    IF Len(layers) # num_layers THEN "proof_len" ELSE VerifyLayers(layers, 1)

CheckOrder ==
    <<"sumcheck", "algebra", "E_opening", "flag_opening",
      "multiset_hashes", "grand_product", "memory_openings">>

HonestHashes ==
    [read_hashes  |-> [i \in 1..NUM_MEMORIES |-> 2],
     write_hashes |-> [i \in 1..NUM_MEMORIES |-> 4],
     init_hashes  |-> [i \in 1..NUM_SUBTABLES |-> 3],
     final_hashes |-> [i \in 1..NUM_MEMORIES |-> 6]]

LayerProofs ==
    [sumcheck_ok : BOOLEAN, claim_last : {18, 19},
     claims_prod_left : {2}, claims_prod_right : {3}]

Proofs ==
    [given : {TRUE},
     sumcheck_ok : BOOLEAN,
     claim_last : {0, 12, 13},
     eq_eval : {2},
     E_poly_openings : {[i \in 1..NUM_MEMORIES |-> 1 + ((i - 1) % 2)],
                        [i \in 1..NUM_MEMORIES |-> IF i <= C THEN 0 ELSE 1]},
     flag_openings : {<<0, 0, 1>>, <<1, 0, 0>>},
     instruction_flag_commitment : {<<0, 0, 1>>, <<1, 0, 0>>},
     E_opening_ok : BOOLEAN,
     flag_opening_ok : BOOLEAN,
     multiset_hashes : {HonestHashes, [HonestHashes EXCEPT !.read_hashes[1] = 5]},
     layers : SeqsUpTo(LayerProofs, 1, MaxLayers),
     num_layers : 1..MaxLayers,
     memory_openings_ok : BOOLEAN]

InitVerify ==
    /\ vf_proof \in Proofs
    /\ vf_pc = "sumcheck"
    /\ vf_result = "running"
    /\ vf_failed = "none"
    /\ vf_log = <<>>
    /\ IdleBytecode
    /\ IdleSubtable
    /\ IdleMerge
    /\ IdleLookups
    /\ IdleSumcheck
    /\ IdleTree
    /\ IdleBge
    /\ IdleFingerprint
    /\ IdleBatched
    /\ IdleMemory
    /\ IdleTimestamp
    /\ IdleSll
    /\ IdleHashes
    /\ IdleR1cs

\* a check passed: verification goes on with `next`
Pass(checks, next) ==
    /\ vf_log' = vf_log \o checks
    /\ vf_pc' = next
    /\ UNCHANGED <<vf_result, vf_failed>>

\* a check failed: verification ends with `result`
Fail(checks, result) ==
    /\ vf_log' = vf_log \o checks
    /\ vf_pc' = "end"
    /\ vf_result' = result
    /\ vf_failed' = checks[Len(checks)]

\* sumcheck_proof.verify(...)?
VerifySumcheck ==
    /\ vf_pc = "sumcheck"
    /\ IF vf_proof.sumcheck_ok
       THEN Pass(<<"sumcheck">>, "algebra")
       ELSE Fail(<<"sumcheck">>, "Err")
    /\ UNCHANGED vf_proof
    /\ UNCHANGED otherThanVerify

\* assert_eq!(eq_eval * combine_lookups(..), claim_last, "Primary sumcheck check failed.")
VerifyPrimaryClaim ==
    /\ vf_pc = "algebra"
    /\ IF FMul(vf_proof.eq_eval,
               combine_lookups(vf_proof.E_poly_openings, vf_proof.flag_openings))
              = vf_proof.claim_last
       THEN Pass(<<"algebra">>, "openings")
       ELSE Fail(<<"algebra">>, "abort")
    /\ UNCHANGED vf_proof
    /\ UNCHANGED otherThanVerify

\* openings.verify_openings(...)?
VerifyOpenings ==
    /\ vf_pc = "openings"
    /\ LET r == verify_openings(vf_proof)
       IN  IF r = "Ok" THEN Pass(<<"E_opening", "flag_opening">>, "multiset_hashes")
           ELSE IF r = "E_opening" THEN Fail(<<"E_opening">>, "Err")
           ELSE Fail(<<"E_opening", "flag_opening">>, "Err")
    /\ UNCHANGED vf_proof
    /\ UNCHANGED otherThanVerify

\* verify_memory_checking: check_multiset_equality(&proof.multiset_hashes)
VerifyMultisetHashes ==
    /\ vf_pc = "multiset_hashes"
    /\ IF check_multiset_equality(vf_proof.multiset_hashes)
       THEN Pass(<<"multiset_hashes">>, "grand_product")
       ELSE Fail(<<"multiset_hashes">>, "abort")
    /\ UNCHANGED vf_proof
    /\ UNCHANGED otherThanVerify

\* verify_memory_checking: the batched grand products
VerifyGrandProducts ==
    /\ vf_pc = "grand_product"
    /\ IF BatchedGrandProductArgument_verify(vf_proof.layers, vf_proof.num_layers)
              = "returned"
       THEN Pass(<<"grand_product">>, "memory_openings")
       ELSE Fail(<<"grand_product">>, "abort")
    /\ UNCHANGED vf_proof
    /\ UNCHANGED otherThanVerify

\* verify_memory_checking: the openings of the memory-checking polynomials,
\* then Ok(())
VerifyMemoryOpenings ==
    /\ vf_pc = "memory_openings"
    /\ IF vf_proof.memory_openings_ok
       THEN /\ vf_log' = Append(vf_log, "memory_openings")
            /\ vf_pc' = "end"
            /\ vf_result' = "Ok"
            /\ vf_failed' = vf_failed
       ELSE Fail(<<"memory_openings">>, "Err")
    /\ UNCHANGED vf_proof
    /\ UNCHANGED otherThanVerify

NextVerify ==
    \/ VerifySumcheck
    \/ VerifyPrimaryClaim
    \/ VerifyOpenings
    \/ VerifyMultisetHashes
    \/ VerifyGrandProducts
    \/ VerifyMemoryOpenings

SpecVerify == InitVerify /\ [][NextVerify]_vars

\* what each check is about, read off the proof
Holds(check) ==
    CASE check = "sumcheck" -> vf_proof.sumcheck_ok
      [] check = "algebra" ->
            FMul(vf_proof.eq_eval,
                 combine_lookups(vf_proof.E_poly_openings, vf_proof.flag_openings))
                = vf_proof.claim_last
      [] check = "E_opening" -> vf_proof.E_opening_ok
      [] check = "flag_opening" -> flag_opening_proof_verify(vf_proof)
      [] check = "multiset_hashes" ->
            \A i \in 1..NUM_MEMORIES :
                FMul(vf_proof.multiset_hashes.init_hashes[((i - 1) \div C) + 1],
                     vf_proof.multiset_hashes.write_hashes[i])
                    = FMul(vf_proof.multiset_hashes.final_hashes[i],
                           vf_proof.multiset_hashes.read_hashes[i])
      [] check = "grand_product" ->
            /\ Len(vf_proof.layers) = vf_proof.num_layers
            /\ \A k \in DOMAIN vf_proof.layers :
                   /\ vf_proof.layers[k].sumcheck_ok
                   /\ vf_proof.layers[k].claim_last
                          = LayerClaimExpected(vf_proof.layers[k])
      [] check = "memory_openings" -> vf_proof.memory_openings_ok

\* the failures that are cryptographic: a check of the proof's content
\* failed (a grand product of the wrong depth is a malformed proof instead)
CryptographicFailure ==
    /\ vf_failed # "none"
    /\ (vf_failed = "grand_product" => Len(vf_proof.layers) = vf_proof.num_layers)

\* C9: every cryptographic failure of verification (sumcheck rounds, the
\* primary-sumcheck equality, a grand-product layer, the multiset hashes, an
\* opening proof) ends verification with a ProofVerifyError value returned to
\* the caller, never with a process abort.
C9_FailuresAreTypedErrors ==
    CryptographicFailure => vf_result = "Err"

\* C10: verify returns Ok only if every check holds of the proof; the checks
\* run in the order sumcheck rounds, primary-sumcheck equality, E openings,
\* flag openings, memory checking; the check that fails is the last one run,
\* so every check run before it held and none runs after it.
C10_OkOnlyIfEveryCheckPassed ==
    vf_pc # "idle" =>
        /\ IsPrefix(vf_log, CheckOrder)
        /\ \A k \in 1..(Len(vf_log) - 1) : Holds(vf_log[k])
        /\ (vf_result = "running" => \A k \in DOMAIN vf_log : Holds(vf_log[k]))
        /\ (vf_result = "Ok" =>
               /\ vf_log = CheckOrder
               /\ \A k \in DOMAIN CheckOrder : Holds(CheckOrder[k]))
        /\ (vf_result \in {"Err", "abort"} =>
               /\ vf_log # <<>>
               /\ vf_failed = vf_log[Len(vf_log)]
               /\ ~Holds(vf_failed)
               /\ vf_pc = "end")

C10_Witness ==
    /\ vf_result = "Ok"
    /\ vf_log = CheckOrder
    /\ Len(vf_proof.layers) = MaxLayers

(***************************************************************************)
(* InstructionLookups::verify as a function of its arguments: the result   *)
(* of the checks in the order the code runs them.                          *)
(***************************************************************************)
verify_memory_checking(proof) ==
    IF ~check_multiset_equality(proof.multiset_hashes) THEN "abort"
    ELSE IF BatchedGrandProductArgument_verify(proof.layers, proof.num_layers)
                # "returned" THEN "abort"
    ELSE IF ~proof.memory_openings_ok THEN "Err"
    ELSE "Ok"

verify(proof) ==
    IF ~proof.sumcheck_ok THEN "Err"
    ELSE IF FMul(proof.eq_eval,
                 combine_lookups(proof.E_poly_openings, proof.flag_openings))
                # proof.claim_last THEN "abort"
    ELSE IF verify_openings(proof) # "Ok" THEN "Err"
    ELSE verify_memory_checking(proof)

\* the values a flag opening is changed to
TamperedValues == {0, 1, 2, FieldP - 1}

\* C11: when verify has accepted a proof, the same proof with the value of
\* one instruction-flag opening changed (same commitment, everything else
\* unchanged) is not accepted: verify does not return Ok on it.  The result
\* verify reaches step by step is the one of the function verify.
C11_TamperedFlagOpeningRejected ==
    vf_pc = "end" =>
        /\ vf_result = verify(vf_proof)
        /\ (vf_result = "Ok" =>
               \A k \in DOMAIN vf_proof.flag_openings :
                   \A v \in TamperedValues \ {vf_proof.flag_openings[k]} :
                       verify([vf_proof EXCEPT !.flag_openings[k] = v]) # "Ok")

\* an accepted proof in which the instruction of one flag combines to zero,
\* so that changing that flag keeps the primary-sumcheck equality
C11_Witness ==
    /\ vf_result = "Ok"
    /\ \E k \in DOMAIN vf_proof.flag_openings :
           \E v \in TamperedValues \ {vf_proof.flag_openings[k]} :
               LET tampered == [vf_proof EXCEPT !.flag_openings[k] = v]
               IN  FMul(tampered.eq_eval,
                        combine_lookups(tampered.E_poly_openings,
                                        tampered.flag_openings))
                       = tampered.claim_last

(***************************************************************************)
(* The primary sumcheck of prove_lookups and the transcript, on the side   *)
(* of the prover and of the verifier.  The instruction set is              *)
(* TestInstructionSet.  A round polynomial is the vector of its values at  *)
(* 0, 1, .., degree.                                                       *)
(***************************************************************************)
MaxSumcheckOps == 3

NUM_INSTRUCTIONS == Len(TestInstructionSet)

\* usize::log_2 (utils::math): the ceiling of the base-2 logarithm of a
\* non-zero length
log_2(n) == log2(n)

\* EqPolynomial::new(r).evals(): entry x is eq(r, x), the bits of x most
\* significant first
EqPolynomial_evals(r) ==
    [x \in 1..(2 ^ Len(r)) |-> ChiAt(index_to_field_bitvector(x - 1, Len(r)), r, 1)]

\* EqPolynomial::new(r).evaluate(rx)
RECURSIVE EqPolynomial_evaluate(_, _)
EqPolynomial_evaluate(r, rx) ==
    IF r = <<>> THEN 1
    ELSE FMul(FAdd(FMul(Head(r), Head(rx)), FMul(FSub(1, Head(r)), FSub(1, Head(rx)))),
              EqPolynomial_evaluate(Tail(r), Tail(rx)))

\* JoltInstruction::g_poly_degree of the instructions of the set
g_poly_degree(opcode) == 1

sumcheck_poly_degree ==
    Max({g_poly_degree(o - 1) : o \in 1..NUM_INSTRUCTIONS}) + 2

\* the E values of step k (1-based) that instruction `opcode` combines
FilteredOperands(E_polys, opcode, k) ==
    LET memory_indices == instruction_to_memory_indices(TestInstructionSet, opcode)
    IN  [i \in DOMAIN memory_indices |-> E_polys[memory_indices[i] + 1][k]]

RECURSIVE ClaimFrom(_, _, _, _)
ClaimFrom(ops, E_polys, eq_evals, k) ==
    IF k > Len(ops) THEN 0
    ELSE FAdd(FMul(eq_evals[k],
                   instruction_combine_lookups(ops[k].opcode,
                       FilteredOperands(E_polys, ops[k].opcode, k))),
              ClaimFrom(ops, E_polys, eq_evals, k + 1))

\* InstructionLookups::compute_sumcheck_claim: the sum over the ops
compute_sumcheck_claim(ops, E_polys, eq_evals) == ClaimFrom(ops, E_polys, eq_evals, 1)

\* the values at 0, 1, .., num_eval_points - 1 of the line through lo and hi
LineEvals(lo, hi, num_eval_points) ==
    [p \in 1..num_eval_points |-> FAdd(lo, FMul(p - 1, FSub(hi, lo)))]

\* primary_sumcheck_inner_loop: the contribution of one low_index
InnerEvaluations(eq_poly, flag_polys, memory_polys, num_eval_points, low_index) ==
    LET mle_half == Len(eq_poly) \div 2
        high_index == mle_half + low_index
        eq_evals == LineEvals(eq_poly[low_index], eq_poly[high_index], num_eval_points)
        multi_flag_evals ==
            [f \in 1..NUM_INSTRUCTIONS |->
                LineEvals(flag_polys[f][low_index], flag_polys[f][high_index],
                          num_eval_points)]
        multi_memory_evals ==
            [i \in 1..NUM_MEMORIES |->
                LineEvals(memory_polys[i][low_index], memory_polys[i][high_index],
                          num_eval_points)]
        term(o, p) ==
            LET memory_indices == instruction_to_memory_indices(TestInstructionSet, o - 1)
                terms == [i \in DOMAIN memory_indices |->
                             multi_memory_evals[memory_indices[i] + 1][p]]
            IN  FMul(multi_flag_evals[o][p], instruction_combine_lookups(o - 1, terms))
        inner_sum == [p \in 1..num_eval_points |->
                         FSum([o \in 1..NUM_INSTRUCTIONS |-> term(o, p)])]
    IN  [p \in 1..num_eval_points |-> FMul(eq_evals[p], inner_sum[p])]

RECURSIVE ReduceEvaluations(_, _, _, _, _)
ReduceEvaluations(eq_poly, flag_polys, memory_polys, num_eval_points, low_index) ==
    IF low_index > Len(eq_poly) \div 2 THEN [p \in 1..num_eval_points |-> 0]
    ELSE LET new == InnerEvaluations(eq_poly, flag_polys, memory_polys,
                                     num_eval_points, low_index)
             running == ReduceEvaluations(eq_poly, flag_polys, memory_polys,
                                          num_eval_points, low_index + 1)
         IN  [p \in 1..num_eval_points |-> FAdd(running[p], new[p])]

\* primary_sumcheck_inner_loop: the round polynomial, by its evaluations
primary_sumcheck_inner_loop(eq_poly, flag_polys, memory_polys, num_eval_points) ==
    ReduceEvaluations(eq_poly, flag_polys, memory_polys, num_eval_points, 1)

\* DensePolynomial::bound_poly_var_top (and its flag and many-ones variants):
\* the top variable fixed to r; the result has half the length
bound_poly_var_top(poly, r) ==
    LET n == Len(poly) \div 2
    IN  [i \in 1..n |-> FAdd(poly[i], FMul(r, FSub(poly[i + n], poly[i])))]

\* the inverse of a non-zero field element (extended Euclid)
RECURSIVE InvStep(_, _, _, _)
InvStep(r0, r1, t0, t1) ==
    IF r1 = 0 THEN t0 ELSE InvStep(r1, r0 % r1, t1, t0 - (r0 \div r1) * t1)

FInv(a) == InvStep(FieldP, a % FieldP, 0, 1) % FieldP

\* UniPoly::evaluate of the polynomial with the given values at 0, 1, ..
UniPoly_evaluate(evals, r) ==
    LET n == Len(evals)
        basis(i) ==
            FProd([j \in 1..n |->
                      IF j = i THEN 1
                      ELSE FMul(FSub(r, j - 1), FInv(FSub(i, j)))])
    IN  FSum([i \in 1..n |-> FMul(evals[i], basis(i))])

\* UniPoly::compress: the polynomial without its linear term; what is left
\* fixes the value at 0 and the differences of order two and more
compress(evals) ==
    [at_zero |-> evals[1],
     diff2 |-> FSub(FAdd(evals[3], evals[1]), FMul(2, evals[2])),
     diff3 |-> FSub(FAdd(evals[4], FMul(3, evals[2])), FAdd(FMul(3, evals[3]), evals[1]))]

\* CompressedUniPoly::decompress(hint): the linear term is the one that makes
\* the values at 0 and at 1 sum to hint
decompress(compressed, hint) ==
    LET e0 == compressed.at_zero
        e1 == FSub(hint, e0)
        e2 == FSub(FAdd(compressed.diff2, FMul(2, e1)), e0)
        e3 == FAdd(FSub(FAdd(compressed.diff3, FMul(3, e2)), FMul(3, e1)), e0)
    IN  <<e0, e1, e2, e3>>

(***************************************************************************)
(* The Fiat-Shamir transcript: the log of its operations, and challenges   *)
(* that are a function of the seed and of everything done so far.          *)
(***************************************************************************)
Labels ==
    <<"Jolt instruction lookups", "comm_poly_row_col_ops_val",
      "claim_eval_scalar_product", "poly", "challenge_nextround",
      "E_poly_opening_proof", "flag_opening_proof", "memory_checking",
      "rand_coeffs_next_layer", "claim_prod_left", "claim_prod_right",
      "challenge_r_layer">>

LabelCode(label) == CHOOSE k \in DOMAIN Labels : Labels[k] = label

RECURSIVE Digest(_, _)
Digest(h, data) ==
    IF data = <<>> THEN h
    ELSE Digest((31 * h + Head(data) + 1) % FieldP, Tail(data))

RECURSIVE Absorb(_, _, _)
Absorb(h, tlog, i) ==
    IF h < 0 \/ i > Len(tlog) THEN h
    ELSE Absorb(Digest(Digest(h, <<IF tlog[i].kind = "append" THEN 1 ELSE 2,
                                   LabelCode(tlog[i].label)>>),
                       tlog[i].data),
                tlog, i + 1)

\* the state of the transcript after the operations of the log
TranscriptState(seed, tlog) == Absorb(seed, tlog, 1)

\* ProofTranscript::append_scalar, append_protocol_name, append_to_transcript
append_message(log, label, data) ==
    Append(log, [kind |-> "append", label |-> label, data |-> data])

RECURSIVE ChallengesFrom(_, _, _, _)
ChallengesFrom(state, label, k, n) ==
    IF k > n THEN <<>>
    ELSE <<Digest(state, <<LabelCode(label), k>>)>>
             \o ChallengesFrom(state, label, k + 1, n)

\* ProofTranscript::challenge_vector: n challenges
challenge_vector(seed, log, label, n) ==
    ChallengesFrom(TranscriptState(seed, log), label, 1, n)

draw_challenges(seed, log, label, n) ==
    Append(log, [kind |-> "challenge", label |-> label,
                 data |-> challenge_vector(seed, log, label, n)])

\* ProofTranscript::challenge_scalar
challenge_scalar(seed, log, label) == challenge_vector(seed, log, label, 1)[1]

\* combined_commit of the batched E polynomials: a binding digest
commit_E(E_polys) == <<Digest(0, merge(E_polys))>>

\* the value of the challenge drawn last
LastChallenge(log) ==
    LET last == CHOOSE i \in DOMAIN log :
                    /\ log[i].kind = "challenge"
                    /\ \A j \in DOMAIN log : log[j].kind = "challenge" => j <= i
    IN  log[last].data

update_primary_sumcheck_transcript_ChallengeFirst(seed, log, round_uni_poly) ==
    append_message(draw_challenges(seed, log, "challenge_nextround", 1),
                   "poly", round_uni_poly)

\* update_primary_sumcheck_transcript: the round polynomial is appended, then
\* the challenge of the round is drawn
update_primary_sumcheck_transcript(seed, log, round_uni_poly) ==
    draw_challenges(seed, append_message(log, "poly", round_uni_poly),
                    "challenge_nextround", 1)

\* the initial states of transcripts handed to prove_lookups and verify
Seeds == {3, 1000}

InitSumcheck ==
    /\ sc_ops \in SeqsUpTo([opcode : 0..2, operand : Operands], 1, MaxSumcheckOps)
    /\ sc_seed \in Seeds
    /\ sc_pc = "setup"
    /\ sc_prover = [started |-> FALSE]
    /\ sc_proof = [given |-> FALSE]
    /\ sc_verifier = [started |-> FALSE]
    /\ IdleBytecode
    /\ IdleSubtable
    /\ IdleMerge
    /\ IdleLookups
    /\ IdleVerify
    /\ IdleTree
    /\ IdleBge
    /\ IdleFingerprint
    /\ IdleBatched
    /\ IdleMemory
    /\ IdleTimestamp
    /\ IdleSll
    /\ IdleHashes
    /\ IdleR1cs

\* prove_lookups up to the call of prove_primary_sumcheck
ProveLookupsSetup ==
    /\ sc_pc = "setup"
    /\ LET polynomials == polynomialize(TestInstructionSet, sc_ops)
           commitment == commit_E(polynomials.E_polys)
           t1 == append_message(<<>>, "Jolt instruction lookups", <<>>)
           t2 == append_message(t1, "comm_poly_row_col_ops_val", commitment)
           t3 == draw_challenges(sc_seed, t2, "Jolt instruction lookups",
                                 log_2(Len(sc_ops)))
           r_eq == LastChallenge(t3)
           eq_evals == EqPolynomial_evals(r_eq)
           sumcheck_claim ==
               compute_sumcheck_claim(sc_ops, polynomials.E_polys, eq_evals)
           t4 == append_message(t3, "claim_eval_scalar_product", <<sumcheck_claim>>)
       IN  sc_prover' =
               [started |-> TRUE,
                polynomials |-> polynomials,
                E_commitment |-> commitment,
                r_eq |-> r_eq,
                sumcheck_claim |-> sumcheck_claim,
                num_rounds |-> log_2(Len(sc_ops)),
                eq_poly |-> eq_evals,
                flag_polys |-> polynomials.instruction_flag_polys,
                memory_polys |-> polynomials.E_polys,
                round_polys |-> <<>>,
                compressed_polys |-> <<>>,
                random_vars |-> <<>>,
                flag_evals |-> <<>>,
                E_evals |-> <<>>,
                transcript |-> t4]
    /\ sc_pc' = "round"
    /\ UNCHANGED <<sc_ops, sc_seed, sc_proof, sc_verifier>>
    /\ UNCHANGED otherThanSumcheck

\* prove_primary_sumcheck: one round.  The first round is run whatever
\* num_rounds is; the loop `for _round in 1..num_rounds` runs the others.
ProvePrimarySumcheckRound ==
    /\ sc_pc = "round"
    /\ LET round_uni_poly ==
               primary_sumcheck_inner_loop(sc_prover.eq_poly, sc_prover.flag_polys,
                                           sc_prover.memory_polys,
                                           sumcheck_poly_degree + 1)
           t == update_primary_sumcheck_transcript(sc_seed, sc_prover.transcript,
                                                   round_uni_poly)
           r_j == LastChallenge(t)[1]
           random_vars == Append(sc_prover.random_vars, r_j)
       IN  /\ sc_prover' =
                 [sc_prover EXCEPT
                     !.round_polys = Append(@, round_uni_poly),
                     !.compressed_polys = Append(@, compress(round_uni_poly)),
                     !.random_vars = random_vars,
                     !.eq_poly = bound_poly_var_top(@, r_j),
                     !.flag_polys =
                         [f \in DOMAIN @ |-> bound_poly_var_top(@[f], r_j)],
                     !.memory_polys =
                         [i \in DOMAIN @ |-> bound_poly_var_top(@[i], r_j)],
                     !.transcript = t]
           /\ sc_pc' = IF Len(random_vars) < sc_prover.num_rounds
                       THEN "round" ELSE "prove_openings"
    /\ UNCHANGED <<sc_ops, sc_seed, sc_proof, sc_verifier>>
    /\ UNCHANGED otherThanSumcheck

\* the end of prove_primary_sumcheck (flag_polys_updated[i][0],
\* memory_polys_updated[i][0]) and PrimarySumcheckOpenings::prove_openings
ProveOpenings ==
    /\ sc_pc = "prove_openings"
    /\ IF \E f \in DOMAIN sc_prover.flag_polys : sc_prover.flag_polys[f] = <<>>
       THEN /\ sc_pc' = "panic"
            /\ UNCHANGED sc_prover
       ELSE LET flag_evals ==
                    [f \in DOMAIN sc_prover.flag_polys |-> sc_prover.flag_polys[f][1]]
                memory_evals ==
                    [i \in DOMAIN sc_prover.memory_polys |->
                        sc_prover.memory_polys[i][1]]
                t1 == append_message(sc_prover.transcript, "E_poly_opening_proof",
                                     memory_evals)
                t2 == append_message(t1, "flag_opening_proof", flag_evals)
            IN  /\ sc_prover' =
                      [sc_prover EXCEPT
                          !.flag_evals = flag_evals,
                          !.E_evals = memory_evals,
                          !.transcript = t2]
                /\ sc_pc' = "prove_memory_checking"
    /\ UNCHANGED <<sc_ops, sc_seed, sc_proof, sc_verifier>>
    /\ UNCHANGED otherThanSumcheck

\* prove_memory_checking, and the proof and commitment prove_lookups returns
ProveMemoryChecking ==
    /\ sc_pc = "prove_memory_checking"
    /\ sc_prover' =
           [sc_prover EXCEPT !.transcript = append_message(@, "memory_checking", <<>>)]
    /\ sc_proof' =
           [given |-> TRUE,
            compressed_polys |-> sc_prover.compressed_polys,
            num_rounds |-> sc_prover.num_rounds,
            claimed_evaluation |-> sc_prover.sumcheck_claim,
            E_poly_openings |-> sc_prover.E_evals,
            flag_openings |-> sc_prover.flag_evals,
            E_commitment |-> sc_prover.E_commitment]
    /\ sc_pc' = "verify_setup"
    /\ UNCHANGED <<sc_ops, sc_seed, sc_verifier>>
    /\ UNCHANGED otherThanSumcheck

\* verify up to the call of sumcheck_proof.verify
ReplaySetup ==
    /\ sc_pc = "verify_setup"
    /\ LET t1 == append_message(<<>>, "Jolt instruction lookups", <<>>)
           t2 == append_message(t1, "comm_poly_row_col_ops_val", sc_proof.E_commitment)
           t3 == draw_challenges(sc_seed, t2, "Jolt instruction lookups",
                                 sc_proof.num_rounds)
           t4 == append_message(t3, "claim_eval_scalar_product",
                                <<sc_proof.claimed_evaluation>>)
       IN  sc_verifier' =
               [started |-> TRUE,
                r_eq |-> LastChallenge(t3),
                e |-> sc_proof.claimed_evaluation,
                r |-> <<>>,
                result |-> "running",
                transcript |-> t4]
    /\ sc_pc' = IF sc_proof.num_rounds = 0 THEN "verify_claim" ELSE "verify_round"
    /\ UNCHANGED <<sc_ops, sc_seed, sc_prover, sc_proof>>
    /\ UNCHANGED otherThanSumcheck

\* SumcheckInstanceProof::verify: one round
ReplaySumcheckRound ==
    /\ sc_pc = "verify_round"
    /\ LET i == Len(sc_verifier.r) + 1
           poly == decompress(sc_proof.compressed_polys[i], sc_verifier.e)
           t == update_primary_sumcheck_transcript(sc_seed, sc_verifier.transcript, poly)
           r_i == LastChallenge(t)[1]
       IN  IF FAdd(poly[1], poly[2]) # sc_verifier.e
           THEN /\ sc_verifier' = [sc_verifier EXCEPT !.result = "Err"]
                /\ sc_pc' = "end"
           ELSE /\ sc_verifier' =
                      [sc_verifier EXCEPT
                          !.transcript = t,
                          !.r = Append(@, r_i),
                          !.e = UniPoly_evaluate(poly, r_i)]
                /\ sc_pc' = IF i < sc_proof.num_rounds THEN "verify_round"
                            ELSE "verify_claim"
    /\ UNCHANGED <<sc_ops, sc_seed, sc_prover, sc_proof>>
    /\ UNCHANGED otherThanSumcheck

\* verify: assert_eq!(eq_eval * combine_lookups(..), claim_last, ..)
ReplayPrimaryClaim ==
    /\ sc_pc = "verify_claim"
    /\ LET eq_eval == EqPolynomial_evaluate(sc_verifier.r_eq, sc_verifier.r)
           claim_last == sc_verifier.e
       IN  IF FMul(eq_eval, combine_lookups(sc_proof.E_poly_openings,
                                            sc_proof.flag_openings)) = claim_last
           THEN /\ sc_pc' = "verify_openings"
                /\ UNCHANGED sc_verifier
           ELSE /\ sc_pc' = "end"
                /\ sc_verifier' = [sc_verifier EXCEPT !.result = "abort"]
    /\ UNCHANGED <<sc_ops, sc_seed, sc_prover, sc_proof>>
    /\ UNCHANGED otherThanSumcheck

\* PrimarySumcheckOpenings::verify_openings
ReplayOpenings ==
    /\ sc_pc = "verify_openings"
    /\ LET t1 == append_message(sc_verifier.transcript, "E_poly_opening_proof",
                                sc_proof.E_poly_openings)
           t2 == append_message(t1, "flag_opening_proof", sc_proof.flag_openings)
       IN  sc_verifier' = [sc_verifier EXCEPT !.transcript = t2]
    /\ sc_pc' = "verify_memory_checking"
    /\ UNCHANGED <<sc_ops, sc_seed, sc_prover, sc_proof>>
    /\ UNCHANGED otherThanSumcheck

\* verify_memory_checking, then Ok(())
ReplayMemoryChecking ==
    /\ sc_pc = "verify_memory_checking"
    /\ sc_verifier' =
           [sc_verifier EXCEPT
               !.transcript = append_message(@, "memory_checking", <<>>),
               !.result = "Ok"]
    /\ sc_pc' = "end"
    /\ UNCHANGED <<sc_ops, sc_seed, sc_prover, sc_proof>>
    /\ UNCHANGED otherThanSumcheck

NextSumcheck ==
    \/ ProveLookupsSetup
    \/ ProvePrimarySumcheckRound
    \/ ProveOpenings
    \/ ProveMemoryChecking
    \/ ReplaySetup
    \/ ReplaySumcheckRound
    \/ ReplayPrimaryClaim
    \/ ReplayOpenings
    \/ ReplayMemoryChecking

SpecSumcheck == InitSumcheck /\ [][NextSumcheck]_vars

\* the sum over the whole padded hypercube of
\* eq(r, x) * sum_i flag_i(x) * g_i(E(x)), from the polynomials of polynomialize
HypercubeSum(polynomials, eq_evals) ==
    FSum([x \in DOMAIN eq_evals |->
            FMul(eq_evals[x],
                 FSum([o \in 1..NUM_INSTRUCTIONS |->
                         FMul(polynomials.instruction_flag_polys[o][x],
                              instruction_combine_lookups(o - 1,
                                  FilteredOperands(polynomials.E_polys, o - 1, x)))]))])

\* C13: for every ops of length >= 1 and the point r_eq drawn, the claim of
\* compute_sumcheck_claim equals the sum over the padded hypercube of
\* eq(r, x) * sum_i flag_i(x) * g_i(E(x)), and the first round polynomial p
\* of the primary sumcheck satisfies p(0) + p(1) = claim.
C13_ClaimIsHypercubeSum ==
    (sc_prover.started /\ Len(sc_prover.round_polys) >= 1) =>
        /\ sc_prover.sumcheck_claim
               = HypercubeSum(sc_prover.polynomials, EqPolynomial_evals(sc_prover.r_eq))
        /\ FAdd(sc_prover.round_polys[1][1], sc_prover.round_polys[1][2])
               = sc_prover.sumcheck_claim

\* the same for traces of at least two steps
C13_HoldsFromTwoSteps ==
    Len(sc_ops) >= 2 => C13_ClaimIsHypercubeSum

\* the claim is the hypercube sum for every length
C13_ClaimPart ==
    sc_prover.started =>
        sc_prover.sumcheck_claim
            = HypercubeSum(sc_prover.polynomials, EqPolynomial_evals(sc_prover.r_eq))

\* kind and label of the operations of a transcript log
Shape(log) == [k \in DOMAIN log |-> <<log[k].kind, log[k].label>>]

RECURSIVE RoundsShape(_)
RoundsShape(n) ==
    IF n = 0 THEN <<>>
    ELSE <<<<"append", "poly">>, <<"challenge", "challenge_nextround">>>>
             \o RoundsShape(n - 1)

\* protocol name, E commitment, r_eq, claimed evaluation, the rounds, the
\* opening proofs, memory checking
ProtocolShape(num_rounds) ==
    <<<<"append", "Jolt instruction lookups">>,
      <<"append", "comm_poly_row_col_ops_val">>,
      <<"challenge", "Jolt instruction lookups">>,
      <<"append", "claim_eval_scalar_product">>>>
        \o RoundsShape(num_rounds)
        \o <<<<"append", "E_poly_opening_proof">>,
             <<"append", "flag_opening_proof">>,
             <<"append", "memory_checking">>>>

\* C12: on the proof prove_lookups returns, verify performs the transcript
\* operations of prove_lookups, in the same order, with the same kinds,
\* labels and data: at every moment of verify its log is a prefix of the
\* prover's, when verify ends it has returned Ok and the two logs are equal,
\* and the log is: protocol name, E commitment, challenge vector r_eq,
\* claimed evaluation, for each round the round polynomial then one
\* challenge, the E and flag opening proofs, memory checking.
C12_TranscriptsAgree ==
    sc_verifier.started =>
        /\ IsPrefix(sc_verifier.transcript, sc_prover.transcript)
        /\ Shape(sc_prover.transcript) = ProtocolShape(sc_proof.num_rounds)
        /\ Len(LastChallenge(SubSeq(sc_prover.transcript, 1, 3))) = sc_proof.num_rounds
        /\ (sc_pc = "end" =>
               /\ sc_verifier.result = "Ok"
               /\ sc_verifier.transcript = sc_prover.transcript)

C12_Witness ==
    /\ sc_pc = "end"
    /\ sc_verifier.result = "Ok"
    /\ Len(sc_ops) = 3
    /\ sc_proof.num_rounds = 2
    /\ sc_proof.claimed_evaluation # 0
    /\ sc_verifier.transcript = sc_prover.transcript

(***************************************************************************)
(* The product tree of product_tree.rs: GrandProductCircuit::new and       *)
(* evaluate.                                                               *)
(***************************************************************************)
MaxTreeDepth == 3

Leaves == {200, FieldP - 1}

\* DensePolynomial::split: the entries before idx and the entries from idx on
split(poly, idx) ==
    [left |-> SubSeq(poly, 1, idx), right |-> SubSeq(poly, idx + 1, Len(poly))]

compute_layer_LeftTwice(inp_left, inp_right) ==
    LET len == Len(inp_left) + Len(inp_right)
    IN  [left  |-> [i \in 1..(len \div 4) |-> FMul(inp_left[i], inp_right[i])],
         right |-> [i \in 1..(len \div 2 - len \div 4) |->
                      FMul(inp_left[len \div 4 + i], inp_left[len \div 4 + i])]]

\* GrandProductCircuit::compute_layer: the entrywise products of the two
\* halves, the first quarter to the left and the second quarter to the right
compute_layer(inp_left, inp_right) ==
    LET len == Len(inp_left) + Len(inp_right)
    IN  [left  |-> [i \in 1..(len \div 4) |-> FMul(inp_left[i], inp_right[i])],
         right |-> [i \in 1..(len \div 2 - len \div 4) |->
                      FMul(inp_left[len \div 4 + i], inp_right[len \div 4 + i])]]

gp_num_layers == log_2(Len(gp_poly))

InitTree ==
    /\ gp_poly \in UNION {[1..(2 ^ n) -> Leaves] : n \in 1..MaxTreeDepth}
    /\ gp_pc = "new"
    /\ gp_circuit = [left_vec |-> <<>>, right_vec |-> <<>>]
    /\ gp_eval = 0
    /\ IdleBytecode
    /\ IdleSubtable
    /\ IdleMerge
    /\ IdleLookups
    /\ IdleVerify
    /\ IdleSumcheck
    /\ IdleBge
    /\ IdleFingerprint
    /\ IdleBatched
    /\ IdleMemory
    /\ IdleTimestamp
    /\ IdleSll
    /\ IdleHashes
    /\ IdleR1cs

\* GrandProductCircuit::new up to its loop: the leaves split in two halves
GrandProductCircuitSplit ==
    /\ gp_pc = "new"
    /\ LET halves == split(gp_poly, Len(gp_poly) \div 2)
       IN  gp_circuit' = [left_vec |-> <<halves.left>>, right_vec |-> <<halves.right>>]
    /\ gp_pc' = "layers"
    /\ UNCHANGED <<gp_poly, gp_eval>>
    /\ UNCHANGED otherThanTree

\* one iteration of `for i in 0..num_layers - 1`
GrandProductCircuitLayer ==
    /\ gp_pc = "layers"
    /\ Len(gp_circuit.left_vec) < gp_num_layers
    /\ LET i == Len(gp_circuit.left_vec)
           outp == compute_layer(gp_circuit.left_vec[i], gp_circuit.right_vec[i])
       IN  gp_circuit' = [left_vec |-> Append(gp_circuit.left_vec, outp.left),
                          right_vec |-> Append(gp_circuit.right_vec, outp.right)]
    /\ UNCHANGED <<gp_poly, gp_pc, gp_eval>>
    /\ UNCHANGED otherThanTree

\* the end of the loop: GrandProductCircuit::new returns
GrandProductCircuitBuilt ==
    /\ gp_pc = "layers"
    /\ Len(gp_circuit.left_vec) >= gp_num_layers
    /\ gp_pc' = "built"
    /\ UNCHANGED <<gp_poly, gp_circuit, gp_eval>>
    /\ UNCHANGED otherThanTree

\* GrandProductCircuit::evaluate: the two assertions, then the product of the
\* entries of the last layer
GrandProductCircuitEvaluate ==
    /\ gp_pc = "built"
    /\ LET len == Len(gp_circuit.left_vec)
       IN  IF Len(gp_circuit.left_vec[len]) = 1 /\ Len(gp_circuit.right_vec[len]) = 1
           THEN /\ gp_eval' = FMul(gp_circuit.left_vec[len][1], gp_circuit.right_vec[len][1])
                /\ gp_pc' = "evaluated"
           ELSE /\ gp_eval' = gp_eval
                /\ gp_pc' = "panic"
    /\ UNCHANGED <<gp_poly, gp_circuit>>
    /\ UNCHANGED otherThanTree

NextTree ==
    \/ GrandProductCircuitSplit
    \/ GrandProductCircuitLayer
    \/ GrandProductCircuitBuilt
    \/ GrandProductCircuitEvaluate

SpecTree == InitTree /\ [][NextTree]_vars

\* C14: for leaves of length 2^n, n >= 1, GrandProductCircuit::new builds
\* exactly n layers, the left and the right vector of layer k (from 0) have
\* length 2^(n-1-k), entry i of layer k+1 (left then right) is
\* left_k[i] * right_k[i], and evaluate returns the product of all the leaves.
C14_ProductTree ==
    gp_pc \in {"layers", "built", "evaluated", "panic"} =>
        LET n == gp_num_layers
            L == gp_circuit.left_vec
            R == gp_circuit.right_vec
        IN  /\ Len(L) = Len(R)
            /\ Len(L) <= n
            /\ gp_pc \in {"built", "evaluated"} => Len(L) = n
            /\ L[1] \o R[1] = gp_poly
            /\ \A k \in 1..Len(L) :
                   /\ Len(L[k]) = 2 ^ (n - k)
                   /\ Len(R[k]) = 2 ^ (n - k)
            /\ \A k \in 1..(Len(L) - 1) :
                   \A i \in 1..Len(L[k]) :
                       (L[k + 1] \o R[k + 1])[i] = FMul(L[k][i], R[k][i])
            /\ gp_pc # "panic"
            /\ gp_pc = "evaluated" => gp_eval = FProd(gp_poly)

C14_Witness ==
    /\ gp_pc = "evaluated"
    /\ Len(gp_poly) = 2 ^ MaxTreeDepth
    /\ Len(gp_circuit.left_vec) = MaxTreeDepth
    /\ gp_eval = FProd(gp_poly)
    /\ gp_eval \notin {0, 1}
    /\ \E i, j \in DOMAIN gp_poly : gp_poly[i] # gp_poly[j]

(***************************************************************************)
(* BGEInstruction of instruction/bge.rs: to_indices, the dereferenced      *)
(* subtable values and combine_lookups, on operands of                     *)
(* BgeC * (BgeLogM / 2) bits (the test has 8 chunks of 8 bits).            *)
(***************************************************************************)
BgeC == 2
BgeLogM == 4

OperandBits == BgeLogM \div 2
WordBits == BgeC * OperandBits

\* BGEInstruction::subtables, in the order of the vector
BGE_subtables == <<"GtMSB", "EqMSB", "Ltu", "Eq", "LtAbs", "EqAbs">>

\* the entry of a subtable for the operands x, y of one chunk
SubtableEntry(kind, x, y, bits) ==
    LET high_bit == 2 ^ (bits - 1)
        truth ==
            CASE kind = "GtMSB" -> (x \div high_bit) > (y \div high_bit)
              [] kind = "EqMSB" -> (x \div high_bit) = (y \div high_bit)
              [] kind = "Ltu"   -> x < y
              [] kind = "Eq"    -> x = y
              [] kind = "LtAbs" -> (x % high_bit) < (y % high_bit)
              [] kind = "EqAbs" -> (x % high_bit) = (y % high_bit)
    IN  IF truth THEN 1 ELSE 0

\* LassoSubtable::materialize of the six subtables
BGE_materialize(kind, m) ==
    LET bits_per_operand == log2(m) \div 2
    IN  [k \in 1..m |->
            LET xy == split_bits(k - 1, bits_per_operand)
            IN  SubtableEntry(kind, xy.high, xy.low, bits_per_operand)]

\* utils::instruction_utils::chunk_and_concatenate_operands: chunk i of x
\* above chunk i of y, most significant chunk first
chunk_and_concatenate_operands(x, y, c, log_M) ==
    LET operand_bits == log_M \div 2
    IN  [i \in 1..c |->
            ((x \div (2 ^ ((c - i) * operand_bits))) % (2 ^ operand_bits))
                * (2 ^ operand_bits)
            + ((y \div (2 ^ ((c - i) * operand_bits))) % (2 ^ operand_bits))]

\* BGEInstruction::to_indices
BGE_to_indices(x, y, c, log_M) == chunk_and_concatenate_operands(x, y, c, log_M)

\* the values handed to combine_lookups: for every subtable, in order, its
\* entries at the C indices
BGE_lookup_values(indices, c, m) ==
    [k \in 1..(Len(BGE_subtables) * c) |->
        BGE_materialize(BGE_subtables[((k - 1) \div c) + 1], m)[indices[((k - 1) % c) + 1] + 1]]

RECURSIVE SLT_accumulate(_, _, _, _, _, _)
SLT_accumulate(ltu, eq, c, i, ltu_sum, eq_prod) ==
    IF i > c THEN ltu_sum
    ELSE SLT_accumulate(ltu, eq, c, i + 1,
                        FAdd(ltu_sum, FMul(ltu[i], eq_prod)),
                        FMul(eq_prod, eq[i]))

\* SLTInstruction::combine_lookups:
\* x_s * (1 - y_s) + EQ(x_s, y_s) * LTU(x_{<s}, y_{<s})
SLT_combine_lookups(vals, c) ==
    LET by(s) == SubSeq(vals, (s - 1) * c + 1, s * c)
        gt_msb == by(1)
        eq_msb == by(2)
        ltu    == by(3)
        eq     == by(4)
        lt_abs == by(5)
        eq_abs == by(6)
    IN  FAdd(gt_msb[1],
             FMul(eq_msb[1], SLT_accumulate(ltu, eq, c, 2, lt_abs[1], eq_abs[1])))

BGE_combine_lookups_NoComplement(vals, c) == SLT_combine_lookups(vals, c)

\* BGEInstruction::combine_lookups: 1 - LTS(x, y)
BGE_combine_lookups(vals, c) == FSub(1, SLT_combine_lookups(vals, c))

\* `as i64`: the two's complement value of a word
AsSigned(x) == IF x >= 2 ^ (WordBits - 1) THEN x - 2 ^ WordBits ELSE x

InitBge ==
    /\ bge_x \in 0..(2 ^ WordBits - 1)
    /\ bge_y \in 0..(2 ^ WordBits - 1)
    /\ bge_pc = "to_indices"
    /\ bge_indices = <<>>
    /\ bge_vals = <<>>
    /\ bge_out = 0
    /\ IdleBytecode
    /\ IdleSubtable
    /\ IdleMerge
    /\ IdleLookups
    /\ IdleVerify
    /\ IdleSumcheck
    /\ IdleTree
    /\ IdleFingerprint
    /\ IdleBatched
    /\ IdleMemory
    /\ IdleTimestamp
    /\ IdleSll
    /\ IdleHashes
    /\ IdleR1cs

BgeToIndices ==
    /\ bge_pc = "to_indices"
    /\ bge_indices' = BGE_to_indices(bge_x, bge_y, BgeC, BgeLogM)
    /\ bge_pc' = "lookup"
    /\ UNCHANGED <<bge_x, bge_y, bge_vals, bge_out>>
    /\ UNCHANGED otherThanBge

BgeLookupValues ==
    /\ bge_pc = "lookup"
    /\ bge_vals' = BGE_lookup_values(bge_indices, BgeC, 2 ^ BgeLogM)
    /\ bge_pc' = "combine"
    /\ UNCHANGED <<bge_x, bge_y, bge_indices, bge_out>>
    /\ UNCHANGED otherThanBge

BgeCombineLookups ==
    /\ bge_pc = "combine"
    /\ bge_out' = BGE_combine_lookups(bge_vals, BgeC)
    /\ bge_pc' = "done"
    /\ UNCHANGED <<bge_x, bge_y, bge_indices, bge_vals>>
    /\ UNCHANGED otherThanBge

NextBge ==
    \/ BgeToIndices
    \/ BgeLookupValues
    \/ BgeCombineLookups

SpecBge == InitBge /\ [][NextBge]_vars

InitCounters == InitBytecode \/ InitLookups

NextCounters == NextBytecode \/ NextLookups

SpecCounters == InitCounters /\ [][NextCounters]_vars

RECURSIVE SumOf(_)
SumOf(s) == IF s = <<>> THEN 0 ELSE Head(s) + SumOf(Tail(s))

\* step j of the ops accesses the memory
UsesMemory(memory_index, j) ==
    Contains(instruction_to_memory_indices(lk_iset, lk_ops[j].opcode), memory_index)

BytecodeCountersCount ==
    (impl = "bytecode" /\ polys.built) =>
        /\ \A j \in DOMAIN trace :
               polys.t_read[j]
                   = Cardinality({k \in 1..(j - 1) : trace[k].address = trace[j].address})
        /\ \A a \in DOMAIN polys.t_final :
               polys.t_final[a]
                   = Cardinality({k \in DOMAIN trace : trace[k].address = a - 1})
        /\ SumOf(polys.t_final) = Len(trace)

LookupCountersCount ==
    lk_polys.built =>
        \A i \in 1..NUM_MEMORIES :
            LET access_sequence == lk_polys.dim[memory_to_dimension_index(i - 1) + 1]
                steps == {k \in DOMAIN lk_ops : UsesMemory(i - 1, k)}
            IN  /\ \A j \in steps :
                       lk_polys.read_cts[i][j]
                           = Cardinality({k \in steps :
                                 k < j /\ access_sequence[k] = access_sequence[j]})
                /\ \A a \in 1..M :
                       lk_polys.final_cts[i][a]
                           = Cardinality({k \in steps : access_sequence[k] = a - 1})
                /\ SumOf(lk_polys.final_cts[i]) = Cardinality(steps)

\* C16: in BytecodePolynomials::new and in polynomialize, for each step j
\* that accesses address a of a memory, read_cts[j] is the number of earlier
\* steps that accessed a in that memory, final_cts[a] is at the end the
\* number of accesses to a, and the sum of final_cts over the addresses is
\* the number of accessing steps.
C16_CountersCountAccesses ==
    /\ BytecodeCountersCount
    /\ LookupCountersCount

C16_Witness ==
    /\ lk_polys.built
    /\ \E i \in 1..NUM_MEMORIES :
          /\ \E j \in DOMAIN lk_ops : UsesMemory(i - 1, j) /\ lk_polys.read_cts[i][j] = 1
          /\ \E j \in DOMAIN lk_ops : ~UsesMemory(i - 1, j)
          /\ \E a \in 1..M : lk_polys.final_cts[i][a] = 2

\* the instruction executed at step j lists subtable s
UsesSubtable(s, j) == Contains(lk_iset[lk_ops[j].opcode + 1], s)

\* the counters of a memory after the first j iterations of the loop of
\* polynomialize over the ops
LoopState(memory_index, j) ==
    LET m == next_power_of_two(Len(lk_ops))
        done == IF j <= Len(lk_ops) THEN j ELSE Len(lk_ops)
    IN  CountLookups(lk_iset, SubSeq(lk_ops, 1, done), memory_index,
                     lk_polys.dim[memory_to_dimension_index(memory_index) + 1], 1,
                     [read_cts |-> Zeros(m), final_cts |-> Zeros(M), E |-> Zeros(m)])

\* C17: in polynomialize, for every memory (subtable s, dimension d) and every
\* step j: if the instruction of step j uses subtable s then
\* E[j] = materialized_subtables[s][dim[d][j]]; otherwise E[j] = 0,
\* read_cts[j] = 0 and step j leaves every final_cts entry of the memory
\* unchanged; padded steps change no counter of any memory.
C17_UnusedMemoriesUntouched ==
    lk_polys.built =>
        \A i \in 1..NUM_MEMORIES :
            LET s == memory_to_subtable_index(i - 1)
                d == memory_to_dimension_index(i - 1)
            IN  /\ LoopState(i - 1, Len(lk_ops)).final_cts = lk_polys.final_cts[i]
                /\ \A j \in DOMAIN lk_polys.E_polys[i] :
                       IF j <= Len(lk_ops) /\ UsesSubtable(s, j)
                       THEN lk_polys.E_polys[i][j]
                                = materialize_subtables[s + 1][lk_polys.dim[d + 1][j] + 1]
                       ELSE /\ lk_polys.E_polys[i][j] = 0
                            /\ lk_polys.read_cts[i][j] = 0
                            /\ LoopState(i - 1, j).final_cts
                                   = LoopState(i - 1, j - 1).final_cts
                            /\ LoopState(i - 1, j).read_cts
                                   = LoopState(i - 1, j - 1).read_cts

C17_Witness ==
    /\ lk_polys.built
    /\ Len(lk_ops) = 3
    /\ \E i \in 1..NUM_MEMORIES :
          /\ \E j \in DOMAIN lk_ops :
                /\ UsesSubtable(memory_to_subtable_index(i - 1), j)
                /\ lk_polys.E_polys[i][j] # 0
                /\ lk_polys.read_cts[i][j] = 1
          /\ \E j \in DOMAIN lk_ops : ~UsesSubtable(memory_to_subtable_index(i - 1), j)

RECURSIVE AddToListed(_, _, _, _)
AddToListed(subtable_flags_acc, instruction_subtables, k, flag) ==
    IF k > Len(instruction_subtables) THEN subtable_flags_acc
    ELSE AddToListed([subtable_flags_acc EXCEPT ![instruction_subtables[k] + 1] =
                          FAdd(@, flag)],
                     instruction_subtables, k + 1, flag)

RECURSIVE SubtableFlagsFrom(_, _, _, _)
SubtableFlagsFrom(iset, instruction_flags, i, subtable_flags_acc) ==
    IF i > Len(iset) THEN subtable_flags_acc
    ELSE SubtableFlagsFrom(iset, instruction_flags, i + 1,
             AddToListed(subtable_flags_acc, iset[i], 1, instruction_flags[i]))

\* InstructionLookups::subtable_flags, of the verifier
subtable_flags(iset, instruction_flags) ==
    SubtableFlagsFrom(iset, instruction_flags, 1, Zeros(NUM_SUBTABLES))

\* the sum of the instruction flags at step j over the instructions that use
\* subtable s
FlagSumOverUsers(iset, flags, s, j) ==
    FSum([o \in DOMAIN iset |-> IF Contains(iset[o], s) THEN flags[o][j] ELSE 0])

\* the prover's half: subtable_flag_polys[s][j] is that sum, and 0 or 1
C19_ProverPart ==
    lk_polys.built =>
        LET flags == lk_polys.instruction_flag_polys
            polys_s == subtable_flag_polys(lk_iset, flags)
        IN  \A s \in 1..NUM_SUBTABLES : \A j \in DOMAIN flags[1] :
                /\ polys_s[s][j] = FlagSumOverUsers(lk_iset, flags, s - 1, j)
                /\ polys_s[s][j] \in {0, 1}

\* C19: for every instruction-to-subtable assignment, every subtable s and
\* every step j, the prover's subtable_flag_polys[s][j] is the sum of the
\* instruction flags at j over the instructions that use s and is 0 or 1,
\* and the verifier's subtable_flags, applied to the instruction flag values
\* at the same point, returns the same value for every s.
C19_SubtableFlagsAgree ==
    lk_polys.built =>
        LET flags == lk_polys.instruction_flag_polys
            polys_s == subtable_flag_polys(lk_iset, flags)
        IN  \A s \in 1..NUM_SUBTABLES : \A j \in DOMAIN flags[1] :
                /\ polys_s[s][j] = FlagSumOverUsers(lk_iset, flags, s - 1, j)
                /\ polys_s[s][j] \in {0, 1}
                /\ subtable_flags(lk_iset, [o \in DOMAIN flags |-> flags[o][j]])[s]
                       = polys_s[s][j]

\* no instruction lists a subtable twice
NoRepeatedSubtable(iset) ==
    \A o \in DOMAIN iset : \A k, l \in DOMAIN iset[o] :
        iset[o][k] = iset[o][l] => k = l

\* the two sides agree when no instruction lists a subtable twice
C19_AgreeWithoutRepeats ==
    NoRepeatedSubtable(lk_iset) => C19_SubtableFlagsAgree

(***************************************************************************)
(* InstructionLookups::fingerprint, on tuples (a, v, t, flag) with an      *)
(* optional flag.                                                          *)
(***************************************************************************)
None == [some |-> FALSE]
Some(val) == [some |-> TRUE, val |-> val]

FlagValues == {0, 1, 2, FieldP - 1}

MemoryTuples ==
    [a : {0, 3}, v : {0, 5}, t : {0, 1, 2}, flag : {None} \cup {Some(f) : f \in FlagValues}]

InstructionLookups_fingerprint_NoIdentity(inputs, gamma, tau) ==
    LET hash == FSub(FAdd(FAdd(FMul(inputs.t, FMul(gamma, gamma)),
                               FMul(inputs.v, gamma)), inputs.a), tau)
    IN  IF inputs.flag.some THEN FMul(inputs.flag.val, hash) ELSE hash

\* InstructionLookups::fingerprint
InstructionLookups_fingerprint(inputs, gamma, tau) ==
    LET hash == FSub(FAdd(FAdd(FMul(inputs.t, FMul(gamma, gamma)),
                               FMul(inputs.v, gamma)), inputs.a), tau)
    IN  IF inputs.flag.some
        THEN FSub(FAdd(FMul(inputs.flag.val, hash), 1), inputs.flag.val)
        ELSE hash

InitFingerprint ==
    /\ fp_inputs \in MemoryTuples
    /\ fp_gamma \in Gammas \cup {FieldP - 1}
    /\ fp_tau \in Taus
    /\ fp_pc = "fingerprint"
    /\ fp_out = 0
    /\ IdleBytecode
    /\ IdleSubtable
    /\ IdleMerge
    /\ IdleLookups
    /\ IdleVerify
    /\ IdleSumcheck
    /\ IdleTree
    /\ IdleBge
    /\ IdleBatched
    /\ IdleMemory
    /\ IdleTimestamp
    /\ IdleSll
    /\ IdleHashes
    /\ IdleR1cs

Fingerprint ==
    /\ fp_pc = "fingerprint"
    /\ fp_out' = InstructionLookups_fingerprint(fp_inputs, fp_gamma, fp_tau)
    /\ fp_pc' = "done"
    /\ UNCHANGED <<fp_inputs, fp_gamma, fp_tau>>
    /\ UNCHANGED otherThanFingerprint

NextFingerprint == Fingerprint

SpecFingerprint == InitFingerprint /\ [][NextFingerprint]_vars

\* t * gamma^2 + v * gamma + a - tau, in the field
UnflaggedHash ==
    (((fp_inputs.t * ((fp_gamma * fp_gamma) % FieldP)) % FieldP)
        + ((fp_inputs.v * fp_gamma) % FieldP) + fp_inputs.a - fp_tau) % FieldP

\* C20: the fingerprint of (a, v, t, flag) is t*gamma^2 + v*gamma + a - tau
\* when the flag is absent or 1, is 1 when the flag is 0, and for a flag f in
\* general is f*(t*gamma^2 + v*gamma + a - tau) + 1 - f.
C20_FlaggedFingerprint ==
    fp_pc = "done" =>
        /\ ~fp_inputs.flag.some => fp_out = UnflaggedHash
        /\ fp_inputs.flag = Some(1) => fp_out = UnflaggedHash
        /\ fp_inputs.flag = Some(0) => fp_out = 1
        /\ fp_inputs.flag.some =>
               fp_out = (((fp_inputs.flag.val * UnflaggedHash) % FieldP)
                            + 1 - fp_inputs.flag.val) % FieldP

C20_Witness ==
    /\ fp_pc = "done"
    /\ fp_inputs.flag = Some(0)
    /\ UnflaggedHash \notin {0, 1}
    /\ fp_out = 1

(***************************************************************************)
(* The tuples of the verifier of the instruction lookups (read_tuples,     *)
(* write_tuples, init_tuples, final_tuples), from openings.                *)
(***************************************************************************)
read_tuples(iset, openings) ==
    LET flags == subtable_flags(iset, openings.flag_openings)
    IN  [memory_index \in 1..NUM_MEMORIES |->
            [a |-> openings.dim_openings[memory_to_dimension_index(memory_index - 1) + 1],
             v |-> openings.E_poly_openings[memory_index],
             t |-> openings.read_openings[memory_index],
             flag |-> Some(flags[memory_to_subtable_index(memory_index - 1) + 1])]]

write_tuples(iset, openings) ==
    LET reads == read_tuples(iset, openings)
    IN  [k \in DOMAIN reads |-> [reads[k] EXCEPT !.t = FAdd(@, 1)]]

init_tuples(openings) ==
    [s \in 1..NUM_SUBTABLES |->
        [a |-> openings.a_init_final, v |-> openings.v_init_final[s], t |-> 0,
         flag |-> None]]

final_tuples(openings) ==
    [memory_index \in 1..NUM_MEMORIES |->
        [a |-> openings.a_init_final,
         v |-> openings.v_init_final[memory_to_subtable_index(memory_index - 1) + 1],
         t |-> openings.final_openings[memory_index],
         flag |-> None]]

\* the openings of the read/write polynomials at step j of the trace
ReadWriteOpeningsAt(p, j) ==
    [dim_openings |-> [d \in DOMAIN p.dim |-> p.dim[d][j]],
     E_poly_openings |-> [i \in DOMAIN p.E_polys |-> p.E_polys[i][j]],
     read_openings |-> [i \in DOMAIN p.read_cts |-> p.read_cts[i][j]],
     flag_openings |-> [o \in DOMAIN p.instruction_flag_polys |->
                           p.instruction_flag_polys[o][j]]]

\* the openings of the init/final polynomials at address a of the subtables
InitFinalOpeningsAt(p, a) ==
    [a_init_final |-> a,
     v_init_final |-> [s \in 1..NUM_SUBTABLES |-> materialize_subtables[s][a + 1]],
     final_openings |-> [i \in DOMAIN p.final_cts |-> p.final_cts[i][a + 1]]]

\* h(a, v, t): the fingerprint of the tuple without its flag
Unflagged(tuple, gamma, tau) ==
    InstructionLookups_fingerprint([tuple EXCEPT !.flag = None], gamma, tau)

\* C21: for every memory and every gamma, tau, the leaves of compute_leaves
\* are the unflagged fingerprints of the verifier's tuples: read leaf j is
\* h(dim[j], E[j], read_cts[j]), write leaf j is the read leaf plus gamma^2
\* and is h(dim[j], E[j], read_cts[j] + 1), init leaf i is h(i, T[i], 0),
\* final leaf i is the init leaf plus final_cts[i] * gamma^2 and is
\* h(i, T[i], final_cts[i]).
C21_LeavesAreFingerprints ==
    lk_leaves.computed =>
        LET gamma == lk_leaves.gamma
            tau == lk_leaves.tau
            g2 == FMul(gamma, gamma)
            rw == lk_leaves.read_write_leaves
            inf == lk_leaves.init_final_leaves
        IN  /\ \A i \in 1..NUM_MEMORIES : \A j \in DOMAIN lk_polys.dim[1] :
                   LET o == ReadWriteOpeningsAt(lk_polys, j)
                   IN  /\ rw[2 * i - 1][j] = Unflagged(read_tuples(lk_iset, o)[i], gamma, tau)
                       /\ rw[2 * i][j] = Unflagged(write_tuples(lk_iset, o)[i], gamma, tau)
                       /\ rw[2 * i][j] = FAdd(rw[2 * i - 1][j], g2)
            /\ \A i \in 1..NUM_MEMORIES : \A a \in 0..(M - 1) :
                   LET o == InitFinalOpeningsAt(lk_polys, a)
                       s == memory_to_subtable_index(i - 1)
                       d == memory_to_dimension_index(i - 1)
                       init_leaf == inf[s * (C + 1) + 1][a + 1]
                       final_leaf == inf[s * (C + 1) + 1 + d + 1][a + 1]
                   IN  /\ init_leaf = Unflagged(init_tuples(o)[s + 1], gamma, tau)
                       /\ final_leaf = Unflagged(final_tuples(o)[i], gamma, tau)
                       /\ final_leaf = FAdd(init_leaf, FMul(lk_polys.final_cts[i][a + 1], g2))

C21_Witness ==
    /\ lk_leaves.computed
    /\ Len(lk_ops) = 3
    /\ \E i \in 1..NUM_MEMORIES :
          /\ \E j \in DOMAIN lk_ops : lk_polys.read_cts[i][j] >= 1 /\ lk_polys.E_polys[i][j] # 0
          /\ \E a \in 1..M : lk_polys.final_cts[i][a] >= 2
          /\ lk_leaves.read_write_leaves[2 * i] # lk_leaves.read_write_leaves[2 * i - 1]

\* the part of a transcript log written by prove_primary_sumcheck
SumcheckSegment(log, rounds) == SubSeq(log, 5, 4 + 2 * rounds)

\* C22: with m the padded trace length and num_rounds = log2(m),
\* prove_primary_sumcheck emits exactly num_rounds compressed round
\* polynomials and num_rounds challenges; in each round the challenge is
\* drawn after the round polynomial is appended and binds the top variable
\* of eq, of every flag polynomial and of every E polynomial, so after round
\* j all of them have length m / 2^j and after the last round each is a
\* single scalar.
C22_RoundsBindEveryPolynomial ==
    (sc_prover.started /\ sc_pc # "panic") =>
        LET m == next_power_of_two(Len(sc_ops))
            j == Len(sc_prover.random_vars)
            seg == SumcheckSegment(sc_prover.transcript, j)
            len == m \div (2 ^ j)
        IN  /\ Len(sc_prover.compressed_polys) = j
            /\ j <= log2(m)
            /\ sc_pc # "round" => j = log2(m)
            /\ Len(seg) = 2 * j
            /\ \A k \in 1..j :
                   /\ seg[2 * k - 1].kind = "append"
                   /\ seg[2 * k - 1].data = sc_prover.round_polys[k]
                   /\ seg[2 * k].kind = "challenge"
                   /\ seg[2 * k].data = <<sc_prover.random_vars[k]>>
            /\ Len(sc_prover.eq_poly) = len
            /\ \A f \in DOMAIN sc_prover.flag_polys : Len(sc_prover.flag_polys[f]) = len
            /\ \A i \in DOMAIN sc_prover.memory_polys : Len(sc_prover.memory_polys[i]) = len
            /\ 2 ^ j * len = m
            /\ sc_pc # "round" =>
                   /\ len = 1
                   /\ sc_prover.eq_poly
                          = <<EqPolynomial_evaluate(sc_prover.r_eq, sc_prover.random_vars)>>
                   /\ \A f \in DOMAIN sc_prover.flag_polys :
                          sc_prover.flag_polys[f]
                              = <<MleOfTable(sc_prover.polynomials.instruction_flag_polys[f],
                                             sc_prover.random_vars)>>
                   /\ \A i \in DOMAIN sc_prover.memory_polys :
                          sc_prover.memory_polys[i]
                              = <<MleOfTable(sc_prover.polynomials.E_polys[i],
                                             sc_prover.random_vars)>>

\* the same for traces of at least two steps
C22_HoldsFromTwoSteps ==
    Len(sc_ops) >= 2 => C22_RoundsBindEveryPolynomial

(***************************************************************************)
(* BatchedGrandProductArgument of product_tree.rs: prove over a batch of   *)
(* circuits of the same size, then verify on the proof it returns.  The    *)
(* cubic sumcheck of a layer (sumcheck.rs) runs num_rounds rounds, each    *)
(* appending the round polynomial and drawing the challenge that binds the *)
(* top variable of every polynomial.                                       *)
(***************************************************************************)
MaxBatchDepth == 3

BatchSizes == {1, 2}

\* the leaves of a circuit: varied values, the first or the last possibly -1
BatchPolys(n) ==
    {[i \in 1..(2 ^ n) |-> IF i = k THEN FieldP - 1 ELSE 200 + i] : k \in {0, 1, 2 ^ n}}

RECURSIVE CircuitLayers(_, _, _)
CircuitLayers(left_vec, right_vec, num_layers) ==
    IF Len(left_vec) >= num_layers
    THEN [left_vec |-> left_vec, right_vec |-> right_vec]
    ELSE LET i == Len(left_vec)
             outp == compute_layer(left_vec[i], right_vec[i])
         IN  CircuitLayers(Append(left_vec, outp.left), Append(right_vec, outp.right),
                           num_layers)

\* GrandProductCircuit::new
GrandProductCircuit_new(poly) ==
    LET halves == split(poly, Len(poly) \div 2)
    IN  CircuitLayers(<<halves.left>>, <<halves.right>>, log_2(Len(poly)))

\* GrandProductCircuit::evaluate
GrandProductCircuit_evaluate(circuit) ==
    LET len == Len(circuit.left_vec)
    IN  FMul(circuit.left_vec[len][1], circuit.right_vec[len][1])

\* the joint claim of a layer: the claims weighted by the coefficients
joint_claim(claims_to_verify, coeff_vec) ==
    FSum([i \in DOMAIN claims_to_verify |-> FMul(claims_to_verify[i], coeff_vec[i])])

\* the round polynomial of the cubic sumcheck, by its values at 0, 1, 2, 3:
\* the sum over the remaining hypercube of coeff * A * B * C
CubicRoundPoly(polys_A, polys_B, poly_C, coeff_vec) ==
    LET half == Len(poly_C) \div 2
        at(poly, b, t) == FAdd(poly[b], FMul(t, FSub(poly[b + half], poly[b])))
        term(i, b, t) ==
            FMul(FMul(at(polys_A[i], b, t), at(polys_B[i], b, t)), at(poly_C, b, t))
    IN  [p \in 1..4 |->
            FSum([i \in DOMAIN polys_A |->
                     FMul(coeff_vec[i], FSum([b \in 1..half |-> term(i, b, p - 1)]))])]

RECURSIVE AppendClaims(_, _, _, _)
AppendClaims(log, claims_prod_left, claims_prod_right, i) ==
    IF i > Len(claims_prod_left) THEN log
    ELSE AppendClaims(
             append_message(append_message(log, "claim_prod_left",
                                           <<claims_prod_left[i]>>),
                            "claim_prod_right", <<claims_prod_right[i]>>),
             claims_prod_left, claims_prod_right, i + 1)

claims_to_verify_next_RightFirst(claims_prod_left, claims_prod_right, r_layer) ==
    [i \in DOMAIN claims_prod_left |->
        FAdd(claims_prod_right[i],
             FMul(r_layer, FSub(claims_prod_left[i], claims_prod_right[i])))]

\* the two claims of every circuit condensed into one:
\* claims_prod_left[i] + r_layer * (claims_prod_right[i] - claims_prod_left[i])
claims_to_verify_next(claims_prod_left, claims_prod_right, r_layer) ==
    [i \in DOMAIN claims_prod_left |->
        FAdd(claims_prod_left[i],
             FMul(r_layer, FSub(claims_prod_right[i], claims_prod_left[i])))]

\* let mut ext = vec![r_layer]; ext.extend(rand_prod); rand = ext
extend_rand(r_layer, rand_prod) == <<r_layer>> \o rand_prod

ba_num_layers == Len(ba_circuits[1].left_vec)

InitBatched ==
    /\ \E n \in 1..MaxBatchDepth : \E k \in BatchSizes :
          \E leaves_of \in [1..k -> BatchPolys(n)] :
              ba_circuits = [i \in 1..k |-> GrandProductCircuit_new(leaves_of[i])]
    /\ ba_seed \in Seeds
    /\ ba_pc = "setup"
    /\ ba_prover = NoBatchedProver
    /\ ba_verifier = NoBatchedVerifier
    /\ IdleBytecode
    /\ IdleSubtable
    /\ IdleMerge
    /\ IdleLookups
    /\ IdleVerify
    /\ IdleSumcheck
    /\ IdleTree
    /\ IdleBge
    /\ IdleFingerprint
    /\ IdleMemory
    /\ IdleTimestamp
    /\ IdleSll
    /\ IdleHashes
    /\ IdleR1cs

\* prove up to its loop: the claims are the values of the circuits
BatchedProveSetup ==
    /\ ba_pc = "setup"
    /\ IF ba_circuits = <<>>
       THEN /\ ba_pc' = "panic"
            /\ UNCHANGED ba_prover
       ELSE /\ ba_prover' =
                  [ba_prover EXCEPT
                      !.claims_to_verify =
                          [i \in DOMAIN ba_circuits |->
                              GrandProductCircuit_evaluate(ba_circuits[i])]]
            /\ ba_pc' = "layer"
    /\ UNCHANGED <<ba_circuits, ba_seed, ba_verifier>>
    /\ UNCHANGED otherThanBatched

\* an iteration of `for layer_id in (0..num_layers).rev()` of prove, up to
\* the sumcheck: poly_C_par, the polynomials of the layer and the
\* coefficients
BatchedProveLayer ==
    /\ ba_pc = "layer"
    /\ Len(ba_prover.proof_layers) < ba_num_layers
    /\ LET layer_id == ba_num_layers - Len(ba_prover.proof_layers)
           len == Len(ba_circuits[1].left_vec[layer_id])
                      + Len(ba_circuits[1].right_vec[layer_id])
           poly_C_par == EqPolynomial_evals(ba_prover.rand)
           num_rounds_prod == log_2(Len(poly_C_par))
           t == draw_challenges(ba_seed, ba_prover.transcript, "rand_coeffs_next_layer",
                                Len(ba_prover.claims_to_verify))
       IN  IF Len(poly_C_par) # len \div 2
           THEN /\ ba_pc' = "panic"
                /\ UNCHANGED ba_prover
           ELSE /\ ba_prover' =
                      [ba_prover EXCEPT
                          !.transcript = t,
                          !.coeff_vec = LastChallenge(t),
                          !.polys_A = [i \in DOMAIN ba_circuits |->
                                          ba_circuits[i].left_vec[layer_id]],
                          !.polys_B = [i \in DOMAIN ba_circuits |->
                                          ba_circuits[i].right_vec[layer_id]],
                          !.poly_C = poly_C_par,
                          !.proof = <<>>,
                          !.rand_prod = <<>>]
                /\ ba_pc' = IF num_rounds_prod > 0 THEN "round" ELSE "claims"
    /\ UNCHANGED <<ba_circuits, ba_seed, ba_verifier>>
    /\ UNCHANGED otherThanBatched

\* a round of SumcheckInstanceProof::prove_cubic_batched: the round
\* polynomial is appended, the challenge drawn, the top variable of every
\* polynomial bound
ProveCubicRound ==
    /\ ba_pc = "round"
    /\ LET poly == CubicRoundPoly(ba_prover.polys_A, ba_prover.polys_B,
                                  ba_prover.poly_C, ba_prover.coeff_vec)
           t == update_primary_sumcheck_transcript(ba_seed, ba_prover.transcript, poly)
           r_j == LastChallenge(t)[1]
       IN  /\ ba_prover' =
                 [ba_prover EXCEPT
                     !.transcript = t,
                     !.polys_A = [i \in DOMAIN @ |-> bound_poly_var_top(@[i], r_j)],
                     !.polys_B = [i \in DOMAIN @ |-> bound_poly_var_top(@[i], r_j)],
                     !.poly_C = bound_poly_var_top(@, r_j),
                     !.proof = Append(@, compress(poly)),
                     !.rand_prod = Append(@, r_j)]
           /\ ba_pc' = IF Len(ba_prover.poly_C) > 2 THEN "round" ELSE "claims"
    /\ UNCHANGED <<ba_circuits, ba_seed, ba_verifier>>
    /\ UNCHANGED otherThanBatched

\* the rest of the iteration: the claims of the layer are appended, r_layer
\* is drawn, the claims are condensed, rand is extended, the layer proof is
\* pushed
BatchedProveClaims ==
    /\ ba_pc = "claims"
    /\ LET claims_prod_left == [i \in DOMAIN ba_prover.polys_A |->
                                   ba_prover.polys_A[i][1]]
           claims_prod_right == [i \in DOMAIN ba_prover.polys_B |->
                                    ba_prover.polys_B[i][1]]
           t == draw_challenges(ba_seed,
                                AppendClaims(ba_prover.transcript, claims_prod_left,
                                             claims_prod_right, 1),
                                "challenge_r_layer", 1)
           r_layer == LastChallenge(t)[1]
       IN  ba_prover' =
               [ba_prover EXCEPT
                   !.transcript = t,
                   !.claims_to_verify =
                       claims_to_verify_next(claims_prod_left, claims_prod_right,
                                             r_layer),
                   !.rand = extend_rand(r_layer, ba_prover.rand_prod),
                   !.proof_layers =
                       Append(@, [proof |-> ba_prover.proof,
                                  claims_prod_left |-> claims_prod_left,
                                  claims_prod_right |-> claims_prod_right])]
    /\ ba_pc' = "layer"
    /\ UNCHANGED <<ba_circuits, ba_seed, ba_verifier>>
    /\ UNCHANGED otherThanBatched

\* prove returns; verify is called on the proof with the values of the
\* circuits and the number of leaves, and asserts the number of layers
BatchedProveReturn ==
    /\ ba_pc = "layer"
    /\ Len(ba_prover.proof_layers) >= ba_num_layers
    /\ LET len == 2 * Len(ba_circuits[1].left_vec[1])
       IN  IF Len(ba_prover.proof_layers) # log_2(len)
           THEN /\ ba_pc' = "panic"
                /\ UNCHANGED ba_verifier
           ELSE /\ ba_verifier' =
                      [ba_verifier EXCEPT
                          !.claims_to_verify =
                              [i \in DOMAIN ba_circuits |->
                                  GrandProductCircuit_evaluate(ba_circuits[i])]]
                /\ ba_pc' = "verify_layer"
    /\ UNCHANGED <<ba_circuits, ba_seed, ba_prover>>
    /\ UNCHANGED otherThanBatched

\* an iteration of `for (num_rounds, i) in (0..num_layers).enumerate()` of
\* verify, up to the rounds of the sumcheck: the coefficients and the joint
\* claim
BatchedVerifyLayer ==
    /\ ba_pc = "verify_layer"
    /\ ba_verifier.layers < Len(ba_prover.proof_layers)
    /\ LET num_rounds == ba_verifier.layers
           layer == ba_prover.proof_layers[ba_verifier.layers + 1]
           t == draw_challenges(ba_seed, ba_verifier.transcript,
                                "rand_coeffs_next_layer",
                                Len(ba_verifier.claims_to_verify))
           coeff_vec == LastChallenge(t)
       IN  IF Len(layer.proof) # num_rounds
           THEN /\ ba_pc' = "panic"
                /\ UNCHANGED ba_verifier
           ELSE /\ ba_verifier' =
                      [ba_verifier EXCEPT
                          !.transcript = t,
                          !.coeff_vec = coeff_vec,
                          !.e = joint_claim(ba_verifier.claims_to_verify, coeff_vec),
                          !.rand_prod = <<>>]
                /\ ba_pc' = IF num_rounds > 0 THEN "verify_round" ELSE "verify_claims"
    /\ UNCHANGED <<ba_circuits, ba_seed, ba_prover>>
    /\ UNCHANGED otherThanBatched

\* a round of SumcheckInstanceProof::verify: the round polynomial must sum
\* to the claim at 0 and 1; it is appended, the challenge drawn, the claim
\* becomes its value at the challenge
VerifyCubicRound ==
    /\ ba_pc = "verify_round"
    /\ LET layer == ba_prover.proof_layers[ba_verifier.layers + 1]
           i == Len(ba_verifier.rand_prod) + 1
           poly == decompress(layer.proof[i], ba_verifier.e)
           t == update_primary_sumcheck_transcript(ba_seed, ba_verifier.transcript, poly)
           r_i == LastChallenge(t)[1]
       IN  IF FAdd(poly[1], poly[2]) # ba_verifier.e
           THEN /\ ba_pc' = "panic"
                /\ UNCHANGED ba_verifier
           ELSE /\ ba_verifier' =
                      [ba_verifier EXCEPT
                          !.transcript = t,
                          !.e = UniPoly_evaluate(poly, r_i),
                          !.rand_prod = Append(@, r_i)]
                /\ ba_pc' = IF i < Len(layer.proof) THEN "verify_round"
                            ELSE "verify_claims"
    /\ UNCHANGED <<ba_circuits, ba_seed, ba_prover>>
    /\ UNCHANGED otherThanBatched

\* the rest of the iteration: the claims of the layer proof are appended,
\* the claim left by the sumcheck is compared with the one they give,
\* r_layer is drawn, the claims are condensed, rand is extended
BatchedVerifyClaims ==
    /\ ba_pc = "verify_claims"
    /\ LET layer == ba_prover.proof_layers[ba_verifier.layers + 1]
           claims_prod_left == layer.claims_prod_left
           claims_prod_right == layer.claims_prod_right
           claim_last == ba_verifier.e
           rand_prod == ba_verifier.rand_prod
           t2 == AppendClaims(ba_verifier.transcript, claims_prod_left,
                              claims_prod_right, 1)
           eq == EqPolynomial_evaluate(ba_verifier.rand, rand_prod)
           claim_expected ==
               FSum([i \in DOMAIN claims_prod_left |->
                        FMul(ba_verifier.coeff_vec[i],
                             FMul(FMul(claims_prod_left[i], claims_prod_right[i]), eq))])
           t3 == draw_challenges(ba_seed, t2, "challenge_r_layer", 1)
           r_layer == LastChallenge(t3)[1]
       IN  IF \/ Len(claims_prod_left) # Len(ba_circuits)
              \/ Len(claims_prod_right) # Len(ba_circuits)
              \/ Len(ba_verifier.rand) # Len(rand_prod)
              \/ claim_expected # claim_last
           THEN /\ ba_pc' = "panic"
                /\ UNCHANGED ba_verifier
           ELSE /\ ba_verifier' =
                      [ba_verifier EXCEPT
                          !.transcript = t3,
                          !.claims_to_verify =
                              claims_to_verify_next(claims_prod_left, claims_prod_right,
                                                    r_layer),
                          !.rand = extend_rand(r_layer, rand_prod),
                          !.layers = @ + 1]
                /\ ba_pc' = "verify_layer"
    /\ UNCHANGED <<ba_circuits, ba_seed, ba_prover>>
    /\ UNCHANGED otherThanBatched

\* verify returns the claims and the random point
BatchedVerifyReturn ==
    /\ ba_pc = "verify_layer"
    /\ ba_verifier.layers >= Len(ba_prover.proof_layers)
    /\ ba_pc' = "end"
    /\ UNCHANGED <<ba_circuits, ba_seed, ba_prover, ba_verifier>>
    /\ UNCHANGED otherThanBatched

NextBatched ==
    \/ BatchedProveSetup
    \/ BatchedProveLayer
    \/ ProveCubicRound
    \/ BatchedProveClaims
    \/ BatchedProveReturn
    \/ BatchedVerifyLayer
    \/ VerifyCubicRound
    \/ BatchedVerifyClaims
    \/ BatchedVerifyReturn

SpecBatched == InitBatched /\ [][NextBatched]_vars

RECURSIVE ClaimsShape(_)
ClaimsShape(k) ==
    IF k = 0 THEN <<>>
    ELSE <<<<"append", "claim_prod_left">>, <<"append", "claim_prod_right">>>>
             \o ClaimsShape(k - 1)

\* the operations of the layer at position i (from 0) for k circuits
LayerShape(i, k) ==
    <<<<"challenge", "rand_coeffs_next_layer">>>>
        \o RoundsShape(i)
        \o ClaimsShape(k)
        \o <<<<"challenge", "challenge_r_layer">>>>

RECURSIVE ArgumentShape(_, _)
ArgumentShape(layers, k) ==
    IF layers = 0 THEN <<>>
    ELSE ArgumentShape(layers - 1, k) \o LayerShape(layers - 1, k)

\* the claims folded with the challenge drawn last in the log
FoldedClaims(layer, log) ==
    LET r_layer == LastChallenge(log)[1]
    IN  [c \in DOMAIN layer.claims_prod_left |->
            FAdd(layer.claims_prod_left[c],
                 FMul(r_layer, FSub(layer.claims_prod_right[c],
                                    layer.claims_prod_left[c])))]

\* C23: for circuits of 2^n leaves prove emits exactly n layer proofs, the
\* one at position i (root first, from 0) with exactly i sumcheck rounds;
\* per layer the prover and the verifier perform the same transcript
\* operations in the same order (one coefficient drawn per circuit, the
\* sumcheck rounds, the left then the right claim of every circuit, r_layer
\* drawn), both fold the two claims as left + r_layer * (right - left), and
\* after the layer at position i the random point has length i + 1 on both
\* sides; the verifier accepts.
C23_LayersAgree ==
    ba_pc \notin {"idle", "setup"} =>
        LET n == log_2(2 * Len(ba_circuits[1].left_vec[1]))
            k == Len(ba_circuits)
            P == ba_prover
            V == ba_verifier
            done == Len(P.proof_layers)
        IN  /\ ba_pc # "panic"
            /\ done <= n
            /\ ba_pc \notin {"layer", "round", "claims"} => done = n
            /\ \A i \in 1..done : Len(P.proof_layers[i].proof) = i - 1
            /\ IsPrefix(Shape(P.transcript), ArgumentShape(n, k))
            /\ ba_pc \notin {"round", "claims"} =>
                   Shape(P.transcript) = ArgumentShape(done, k)
            /\ IsPrefix(V.transcript, P.transcript)
            /\ ba_pc \in {"verify_layer", "end"} =>
                   Shape(V.transcript) = ArgumentShape(V.layers, k)
            /\ \A j \in DOMAIN P.transcript :
                   P.transcript[j].label = "rand_coeffs_next_layer"
                       => Len(P.transcript[j].data) = k
            /\ ba_pc = "end" => V.transcript = P.transcript
            /\ Len(P.rand) = done
            /\ Len(V.rand) = V.layers
            /\ (done > 0 /\ ba_pc \notin {"round", "claims"}) =>
                   /\ P.claims_to_verify
                          = FoldedClaims(P.proof_layers[done], P.transcript)
                   /\ Head(P.rand) = LastChallenge(P.transcript)[1]
            /\ (V.layers > 0 /\ ba_pc \in {"verify_layer", "end"}) =>
                   /\ V.claims_to_verify
                          = FoldedClaims(P.proof_layers[V.layers], V.transcript)
                   /\ Head(V.rand) = LastChallenge(V.transcript)[1]
            /\ ba_pc = "end" =>
                   /\ V.layers = n
                   /\ V.claims_to_verify = P.claims_to_verify
                   /\ V.rand = P.rand

C23_Witness ==
    /\ ba_pc = "end"
    /\ Len(ba_circuits) = 2
    /\ Len(ba_prover.proof_layers) = 3
    /\ Len(ba_prover.proof_layers[3].proof) = 2
    /\ Len(ba_prover.rand) = 3
    /\ ba_verifier.layers = 3
    /\ ba_verifier.rand = ba_prover.rand
    /\ ba_verifier.transcript = ba_prover.transcript
    /\ ba_prover.claims_to_verify[1] # ba_prover.claims_to_verify[2]

(***************************************************************************)
(* Jolt::prove_memory of the older vm module (src/jolt/vm/mod.rs): the     *)
(* read, write and final sets built from a memory trace and their          *)
(* fingerprint polynomials.                                                *)
(***************************************************************************)
MaxMemorySize == 2
MaxMemorySteps == 2
MaxOpsPerStep == 2

MemoryValues == {0, 7}

\* MemoryOp::Read(address, value) and MemoryOp::Write(address, old_value,
\* new_value) over a memory of the given size
MemoryOps(memory_size) ==
    {[kind |-> "Read", a |-> a, v |-> v] :
        a \in 0..(memory_size - 1), v \in MemoryValues}
      \cup {[kind |-> "Write", a |-> a, v_old |-> v, v_new |-> w] :
              a \in 0..(memory_size - 1), v \in MemoryValues, w \in MemoryValues}

\* the ops of the steps of a trace, in order
RECURSIVE FlatOps(_)
FlatOps(memory_trace) ==
    IF memory_trace = <<>> THEN <<>>
    ELSE Head(memory_trace) \o FlatOps(Tail(memory_trace))

\* every Read returns the value most recently written to its address
\* (initially 0) and every Write names the current value as its old value
RECURSIVE ValidOps(_, _)
ValidOps(ops, mem) ==
    IF ops = <<>> THEN TRUE
    ELSE LET op == Head(ops)
         IN  IF op.kind = "Read"
             THEN mem[op.a] = op.v /\ ValidOps(Tail(ops), mem)
             ELSE /\ mem[op.a] = op.v_old
                  /\ ValidOps(Tail(ops), [mem EXCEPT ![op.a] = op.v_new])

ValidMemoryTrace(memory_trace, memory_size) ==
    ValidOps(FlatOps(memory_trace), [a \in 0..(memory_size - 1) |-> 0])

\* hash_func of prove_memory: t * gamma^2 + v * gamma + a - tau
hash_func(a, v, t, gamma, tau) ==
    FSub(FAdd(FAdd(FMul(t, FMul(gamma, gamma)), FMul(v, gamma)), a), tau)

\* the inner loop `for memory_op in memory_access`: every op pushes a read
\* and a write tuple and replaces the final tuple of its address
RECURSIVE memory_access_ops(_, _, _)
memory_access_ops(memory_access, timestamp, sets) ==
    IF memory_access = <<>> THEN sets
    ELSE LET op == Head(memory_access)
             a == op.a
             read_v == IF op.kind = "Read" THEN op.v ELSE op.v_old
             write_v == IF op.kind = "Read" THEN op.v ELSE op.v_new
         IN  memory_access_ops(
                 Tail(memory_access), timestamp,
                 [read_set |-> Append(sets.read_set, <<a, read_v, timestamp>>),
                  write_set |-> Append(sets.write_set, <<a, write_v, timestamp + 1>>),
                  final_set |-> [sets.final_set EXCEPT
                                    ![a + 1] = <<a, write_v, timestamp + 1>>]])

\* the fingerprints of a list of tuples
hash_all(tuples, gamma, tau) ==
    [i \in DOMAIN tuples |-> hash_func(tuples[i][1], tuples[i][2], tuples[i][3],
                                       gamma, tau)]

\* the tuples (i, 0, 0) of init_poly
memory_init_set(memory_size) == [i \in 1..memory_size |-> <<i - 1, 0, 0>>]

InitMemory ==
    /\ pm_size \in 1..MaxMemorySize
    /\ \E steps \in 1..MaxMemorySteps : \E per_step \in 1..MaxOpsPerStep :
           pm_trace \in [1..steps -> [1..per_step -> MemoryOps(pm_size)]]
    /\ ValidMemoryTrace(pm_trace, pm_size)
    /\ pm_r \in [gamma : Gammas, tau : Taus]
    /\ pm_pc = "loop"
    /\ pm_locals = [timestamp |-> 0, read_set |-> <<>>, write_set |-> <<>>,
                    final_set |-> memory_init_set(pm_size),
                    init_poly |-> <<>>, read_poly |-> <<>>,
                    write_poly |-> <<>>, final_poly |-> <<>>]
    /\ IdleBytecode
    /\ IdleSubtable
    /\ IdleMerge
    /\ IdleLookups
    /\ IdleVerify
    /\ IdleSumcheck
    /\ IdleTree
    /\ IdleBge
    /\ IdleFingerprint
    /\ IdleBatched
    /\ IdleTimestamp
    /\ IdleSll
    /\ IdleHashes
    /\ IdleR1cs

\* one iteration of `for memory_access in memory_trace`
ProveMemoryAccess ==
    /\ pm_pc = "loop"
    /\ pm_locals.timestamp < Len(pm_trace)
    /\ LET sets == memory_access_ops(pm_trace[pm_locals.timestamp + 1],
                                     pm_locals.timestamp,
                                     [read_set |-> pm_locals.read_set,
                                      write_set |-> pm_locals.write_set,
                                      final_set |-> pm_locals.final_set])
       IN  pm_locals' = [pm_locals EXCEPT
                            !.timestamp = @ + 1,
                            !.read_set = sets.read_set,
                            !.write_set = sets.write_set,
                            !.final_set = sets.final_set]
    /\ UNCHANGED <<pm_trace, pm_size, pm_r, pm_pc>>
    /\ UNCHANGED otherThanMemory

\* the end of the loop
ProveMemoryLoopDone ==
    /\ pm_pc = "loop"
    /\ pm_locals.timestamp >= Len(pm_trace)
    /\ pm_pc' = "polys"
    /\ UNCHANGED <<pm_trace, pm_size, pm_r, pm_locals>>
    /\ UNCHANGED otherThanMemory

\* init_poly, read_poly, write_poly, final_poly; then unimplemented!("todo")
ProveMemoryPolys ==
    /\ pm_pc = "polys"
    /\ pm_locals' =
           [pm_locals EXCEPT
               !.init_poly = hash_all(memory_init_set(pm_size), pm_r.gamma, pm_r.tau),
               !.read_poly = hash_all(pm_locals.read_set, pm_r.gamma, pm_r.tau),
               !.write_poly = hash_all(pm_locals.write_set, pm_r.gamma, pm_r.tau),
               !.final_poly = hash_all(pm_locals.final_set, pm_r.gamma, pm_r.tau)]
    /\ pm_pc' = "todo"
    /\ UNCHANGED <<pm_trace, pm_size, pm_r>>
    /\ UNCHANGED otherThanMemory

NextMemory ==
    \/ ProveMemoryAccess
    \/ ProveMemoryLoopDone
    \/ ProveMemoryPolys

SpecMemory == InitMemory /\ [][NextMemory]_vars

\* C24: for every valid memory trace the sets prove_memory builds satisfy
\* multiset equality: the init tuples (i, 0, 0) together with write_set are
\* read_set together with final_set, so the products of the fingerprint
\* polynomials satisfy init * write = final * read.
C24_MemoryMultisetEquality ==
    (pm_pc = "todo" /\ ValidMemoryTrace(pm_trace, pm_size)) =>
        /\ SeqToBag(memory_init_set(pm_size)) (+) SeqToBag(pm_locals.write_set)
               = SeqToBag(pm_locals.read_set) (+) SeqToBag(pm_locals.final_set)
        /\ FMul(FProd(pm_locals.init_poly), FProd(pm_locals.write_poly))
               = FMul(FProd(pm_locals.final_poly), FProd(pm_locals.read_poly))

\* what holds of the sets: one read and one write tuple per op, the write
\* tuple one tick after the read tuple at the same address, and the final
\* set holds for every address its last write tuple, or (i, 0, 0)
C24_SetsShape ==
    pm_pc = "todo" =>
        LET ops == FlatOps(pm_trace)
            R == pm_locals.read_set
            W == pm_locals.write_set
        IN  /\ Len(R) = Len(ops)
            /\ Len(W) = Len(ops)
            /\ Len(pm_locals.final_set) = pm_size
            /\ \A i \in DOMAIN ops :
                   /\ R[i][1] = ops[i].a
                   /\ W[i][1] = ops[i].a
                   /\ W[i][3] = R[i][3] + 1
            /\ \A a \in 1..pm_size :
                   LET touched == {i \in DOMAIN W : W[i][1] = a - 1}
                   IN  pm_locals.final_set[a]
                           = IF touched = {} THEN <<a - 1, 0, 0>>
                             ELSE W[CHOOSE i \in touched : \A j \in touched : j <= i]

(***************************************************************************)
(* Positions and addresses of the preprocessed bytecode                    *)
(***************************************************************************)
\* the leaf of a bytecode row at timestamp t
RowLeaf(row, t, gamma, tau) ==
    fingerprint(<<row.address, row.opcode, row.rd, row.rs1, row.rs2, row.imm, t>>,
                gamma, tau)

\* C25: after BytecodePolynomials::preprocess of a bytecode of n rows that
\* validation accepted, the row at position i has normalised address i for
\* 0 <= i <= n (position n is the appended no-op row, to which every padded
\* trace row points); so code_size is the padded bytecode length, t_final
\* and the v_init_final polynomials have the same length, every trace
\* address is below code_size, and the init/final leaf at index i carries
\* the fields of the bytecode row whose address is i.
C25_PositionsAreAddresses ==
    (impl = "bytecode" /\ PastPreprocess) =>
        LET n == Len(arg_bytecode)
        IN  /\ \A i \in 0..n : bytecode[i + 1].address = i
            /\ bytecode[n + 1] = no_op(n)
            /\ \A j \in (Len(arg_trace) + 1)..Len(trace) : trace[j] = no_op(n)
            /\ BytecodeCodeSize(bytecode) = Len(bytecode)
            /\ AddressesInRange(trace, BytecodeCodeSize(bytecode))
            /\ bc_pc # "panic"
            /\ polys.built =>
                   /\ Len(polys.t_final) = Len(polys.v_init_final.opcode)
                   /\ \A j \in DOMAIN polys.a_read_write :
                          polys.a_read_write[j] < Len(polys.t_final)
            /\ leaves.computed =>
                   \A p \in 1..(n + 1) :
                       LET a == bytecode[p].address
                       IN  /\ a + 1 \in DOMAIN leaves.init
                           /\ leaves.init[a + 1]
                                  = RowLeaf(bytecode[p], 0, leaves.gamma, leaves.tau)
                           /\ leaves.final[a + 1]
                                  = RowLeaf(bytecode[p], polys.t_final[a + 1],
                                            leaves.gamma, leaves.tau)

\* the same for a bytecode whose rows lie at consecutive slots from
\* RAM_START_ADDRESS on
C25_HoldsFromSlotZero ==
    (Sequential(arg_bytecode) /\ arg_bytecode[1].address = RAM_START_ADDRESS) =>
        C25_PositionsAreAddresses

(***************************************************************************)
(* Jolt::prove_memory and verify_memory of jolt-core/src/jolt/vm/mod.rs:   *)
(* the table size of the Surge proof of timestamp validity.                *)
(***************************************************************************)
MaxMemoryTraceSize == 49

MEMORY_OPS_PER_INSTRUCTION == 7

\* usize::div_ceil
div_ceil(a, b) == (a + b - 1) \div b

\* prove_memory: 2 * memory_trace_size.div_ceil(MEMORY_OPS_PER_INSTRUCTION)
\*                      .next_power_of_two()
prove_memory_surge_M(memory_trace_size) ==
    2 * next_power_of_two(div_ceil(memory_trace_size, MEMORY_OPS_PER_INSTRUCTION))

\* verify_memory: 2 * proof.memory_trace_size.next_power_of_two()
verify_memory_surge_M(memory_trace_size) ==
    2 * next_power_of_two(memory_trace_size)

InitTimestamp ==
    /\ tv_trace_len \in 0..MaxMemoryTraceSize
    /\ tv_pc = "prove"
    /\ tv_proof = [memory_trace_size |-> 0, surge_M |-> 0]
    /\ tv_surge_M = 0
    /\ IdleBytecode
    /\ IdleSubtable
    /\ IdleMerge
    /\ IdleLookups
    /\ IdleVerify
    /\ IdleSumcheck
    /\ IdleTree
    /\ IdleBge
    /\ IdleFingerprint
    /\ IdleBatched
    /\ IdleMemory
    /\ IdleSll
    /\ IdleHashes
    /\ IdleR1cs

\* Jolt::prove_memory: the Surge instance is built with surge_M, the proof
\* carries memory_trace_size
JoltProveMemory ==
    /\ tv_pc = "prove"
    /\ tv_proof' = [memory_trace_size |-> tv_trace_len,
                    surge_M |-> prove_memory_surge_M(tv_trace_len)]
    /\ tv_pc' = "verify"
    /\ UNCHANGED <<tv_trace_len, tv_surge_M>>
    /\ UNCHANGED otherThanTimestamp

\* Jolt::verify_memory: surge_M recomputed from proof.memory_trace_size
JoltVerifyMemory ==
    /\ tv_pc = "verify"
    /\ tv_surge_M' = verify_memory_surge_M(tv_proof.memory_trace_size)
    /\ tv_pc' = "done"
    /\ UNCHANGED <<tv_trace_len, tv_proof>>
    /\ UNCHANGED otherThanTimestamp

NextTimestamp ==
    \/ JoltProveMemory
    \/ JoltVerifyMemory

SpecTimestamp == InitTimestamp /\ [][NextTimestamp]_vars

\* C26: for every memory_trace_size the surge_M verify_memory hands to
\* Surge::verify is the surge_M prove_memory built the Surge proof with.
C26_SurgeTableSizesAgree ==
    tv_pc = "done" => tv_surge_M = tv_proof.surge_M

\* what holds: both are twice a power of two, the verifier's is never the
\* smaller one, and the two agree for traces of at most one op
C26_VerifierSizeNotSmaller ==
    tv_pc = "done" =>
        /\ is_power_of_two(tv_surge_M \div 2) /\ tv_surge_M % 2 = 0
        /\ is_power_of_two(tv_proof.surge_M \div 2) /\ tv_proof.surge_M % 2 = 0
        /\ tv_proof.surge_M <= tv_surge_M
        /\ tv_trace_len <= 1 => tv_surge_M = tv_proof.surge_M

(***************************************************************************)
(* The commitments of InstructionPolynomials and the transcript            *)
(***************************************************************************)
\* InstructionPolynomials::batch and commit: one binding digest per batch
InstructionPolynomials_commit(polynomials) ==
    [dim_read_commitment |->
         <<Digest(0, merge(polynomials.dim \o polynomials.read_cts))>>,
     final_commitment |-> <<Digest(0, merge(polynomials.final_cts))>>,
     E_commitment |-> commit_E(polynomials.E_polys),
     instruction_flag_commitment |->
         <<Digest(0, merge(polynomials.instruction_flag_polys))>>]

\* the operations of a log before its first challenge
BeforeFirstChallenge(log) ==
    {i \in DOMAIN log : \A j \in 1..i : log[j].kind = "append"}

\* the commitment is appended before any challenge is drawn
CommittedFirst(log, commitment) ==
    \E i \in BeforeFirstChallenge(log) : log[i].data = commitment

\* C27: in prove_lookups and in verify the commitments to all the committed
\* batches (dim and read counters, final counters, E, instruction flags) are
\* appended to the transcript before the first challenge is drawn.
C27_CommitmentsBeforeChallenges ==
    sc_prover.started =>
        LET c == InstructionPolynomials_commit(sc_prover.polynomials)
        IN  /\ \A f \in DOMAIN c : CommittedFirst(sc_prover.transcript, c[f])
            /\ sc_verifier.started =>
                   \A f \in DOMAIN c : CommittedFirst(sc_verifier.transcript, c[f])

\* what holds: the commitment to E is appended before the first challenge,
\* on both sides, and it is the only commitment of the log
C27_OnlyECommitted ==
    sc_prover.started =>
        LET c == InstructionPolynomials_commit(sc_prover.polynomials)
        IN  /\ sc_prover.E_commitment = c.E_commitment
            /\ CommittedFirst(sc_prover.transcript, c.E_commitment)
            /\ sc_verifier.started =>
                   CommittedFirst(sc_verifier.transcript, c.E_commitment)
            /\ \A i \in DOMAIN sc_prover.transcript :
                   sc_prover.transcript[i].label = "comm_poly_row_col_ops_val"
                       <=> i = 2
            /\ \A i \in BeforeFirstChallenge(sc_prover.transcript) : i <= 2

(***************************************************************************)
(* SLLInstruction of instruction/sll.rs: subtables(C), the values          *)
(* InstructionLookups hands to combine_lookups, and combine_lookups.       *)
(***************************************************************************)
MaxSllC == 3

MAX_SLL_SUBTABLES == 10

SllSizes == {4, 16}

\* the values of the C * C memories: every 0/1 assignment for small C, a few
\* patterns for the others
SllMemories(c) ==
    IF c <= MaxSllC THEN [1..(c * c) -> {0, 1}]
    ELSE {[k \in 1..(c * c) |-> (k * s + t) % 4] : s \in {1, 3}, t \in {0, 1}}

\* Vec::truncate
truncate(v, len) == IF len < Len(v) THEN SubSeq(v, 1, len) ELSE v

\* Vec::reverse
reverse(v) == [k \in 1..Len(v) |-> v[Len(v) + 1 - k]]

SLL_subtables_NotReversed(c) ==
    truncate([k \in 1..MAX_SLL_SUBTABLES |-> k - 1], c)

\* SLLInstruction::subtables: SllSubtable<0> .. SllSubtable<9>, truncated to
\* C and reversed; a subtable is named by its index
SLL_subtables(c) ==
    reverse(truncate([k \in 1..MAX_SLL_SUBTABLES |-> k - 1], c))

\* instruction_to_memory_indices for C chunks: the C memories of every
\* subtable of the instruction, in the order of its subtables
RECURSIVE memory_indices_of(_, _)
memory_indices_of(subtables, c) ==
    IF subtables = <<>> THEN <<>>
    ELSE [k \in 1..c |-> c * Head(subtables) + (k - 1)]
            \o memory_indices_of(Tail(subtables), c)

\* utils::concatenate_lookups: the values as digits of operand_bits bits, the
\* first one the most significant
RECURSIVE concatenate_lookups(_, _, _)
concatenate_lookups(vals, c, operand_bits) ==
    IF c = 0 THEN 0
    ELSE FAdd(vals[c],
              FMul(2 ^ operand_bits,
                   concatenate_lookups(SubSeq(vals, 1, c - 1), c - 1, operand_bits)))

SLL_combine_lookups_FirstOfEachGroup(vals, c, m) ==
    IF c > MAX_SLL_SUBTABLES \/ Len(vals) # c * c THEN [ok |-> FALSE, val |-> 0]
    ELSE LET vals_filtered == [i \in 1..c |-> vals[(i - 1) * c + 1]]
         IN  [ok |-> TRUE,
              val |-> concatenate_lookups(vals_filtered, c, log2(m) \div 2)]

\* SLLInstruction::combine_lookups: the two assertions, then from chunk i of
\* vals (chunks of C values) the value at position i, concatenated
SLL_combine_lookups(vals, c, m) ==
    IF c > MAX_SLL_SUBTABLES \/ Len(vals) # c * c THEN [ok |-> FALSE, val |-> 0]
    ELSE LET vals_filtered == [i \in 1..c |-> vals[(i - 1) * c + i]]
         IN  [ok |-> TRUE,
              val |-> concatenate_lookups(vals_filtered, c, log2(m) \div 2)]

InitSll ==
    /\ sl_C \in 1..MAX_SLL_SUBTABLES
    /\ sl_M \in SllSizes
    /\ sl_memory \in SllMemories(sl_C)
    /\ sl_pc = "subtables"
    /\ sl_subtables = <<>>
    /\ sl_vals = <<>>
    /\ sl_out = 0
    /\ IdleBytecode
    /\ IdleSubtable
    /\ IdleMerge
    /\ IdleLookups
    /\ IdleVerify
    /\ IdleSumcheck
    /\ IdleTree
    /\ IdleBge
    /\ IdleFingerprint
    /\ IdleBatched
    /\ IdleMemory
    /\ IdleTimestamp
    /\ IdleHashes
    /\ IdleR1cs

\* SLLInstruction::subtables(C)
SllSubtables ==
    /\ sl_pc = "subtables"
    /\ sl_subtables' = SLL_subtables(sl_C)
    /\ sl_pc' = "supply"
    /\ UNCHANGED <<sl_C, sl_M, sl_memory, sl_vals, sl_out>>
    /\ UNCHANGED otherThanSll

\* InstructionLookups: the values of the memories of the instruction
SllSupply ==
    /\ sl_pc = "supply"
    /\ LET memory_indices == memory_indices_of(sl_subtables, sl_C)
       IN  sl_vals' = [k \in DOMAIN memory_indices |-> sl_memory[memory_indices[k] + 1]]
    /\ sl_pc' = "combine"
    /\ UNCHANGED <<sl_C, sl_M, sl_memory, sl_subtables, sl_out>>
    /\ UNCHANGED otherThanSll

\* SLLInstruction::combine_lookups
SllCombineLookups ==
    /\ sl_pc = "combine"
    /\ LET res == SLL_combine_lookups(sl_vals, sl_C, sl_M)
       IN  /\ sl_out' = res.val
           /\ sl_pc' = IF res.ok THEN "done" ELSE "panic"
    /\ UNCHANGED <<sl_C, sl_M, sl_memory, sl_subtables, sl_vals>>
    /\ UNCHANGED otherThanSll

NextSll ==
    \/ SllSubtables
    \/ SllSupply
    \/ SllCombineLookups

SpecSll == InitSll /\ [][NextSll]_vars

\* memory d (from 0) of the subtable with the given index
SllMemory(subtable, d) == sl_memory[sl_C * subtable + d + 1]

\* C28: for 1 <= C <= 10, subtables(C) returns exactly C subtables in the
\* order SllSubtable<C-1>, .., SllSubtable<0>; combine_lookups accepts the
\* C * C values InstructionLookups supplies for them (C per subtable, grouped
\* by subtable in that order) and uses from group i only its value i: the
\* result is the concatenation, as digits of log2(M)/2 bits, of memory i of
\* SllSubtable<C-1-i> for i = 0 .. C-1.
C28_SllSubtablesAndCombine ==
    /\ sl_pc \in {"supply", "combine", "done", "panic"} =>
           /\ Len(sl_subtables) = sl_C
           /\ \A i \in 1..sl_C : sl_subtables[i] = sl_C - i
    /\ sl_pc \in {"combine", "done", "panic"} =>
           /\ Len(sl_vals) = sl_C * sl_C
           /\ \A i \in 0..(sl_C - 1) : \A d \in 0..(sl_C - 1) :
                  sl_vals[i * sl_C + d + 1] = SllMemory(sl_C - 1 - i, d)
    /\ sl_pc # "panic"
    /\ sl_pc = "done" =>
           sl_out = FSum([k \in 1..sl_C |->
                             FMul(SllMemory(sl_C - k, k - 1),
                                  FProd([j \in 1..(sl_C - k) |->
                                            2 ^ (log2(sl_M) \div 2)]))])

C28_Witness ==
    /\ sl_pc = "done"
    /\ sl_C = 3
    /\ sl_M = 16
    /\ sl_subtables = <<2, 1, 0>>
    /\ SllMemory(2, 0) = 1 /\ SllMemory(1, 1) = 0 /\ SllMemory(0, 2) = 1
    /\ SllMemory(1, 0) = 1 /\ SllMemory(0, 0) = 0
    /\ sl_out = 17

(***************************************************************************)
(* interleave_hashes and uninterleave_hashes of InstructionLookups.        *)
(***************************************************************************)
HashSteps == {1, 7}

HashBases == {1, 500, FieldP - 3}

\* MultisetHashes of the right lengths: an arithmetic pattern over the slots
\* of the four vectors, one slot of which is replaced by zero
HashInputs ==
    {LET at(k) == IF k = hole THEN 0 ELSE (base + k * step) % FieldP
     IN  [read_hashes  |-> [i \in 1..NUM_MEMORIES |-> at(i)],
          write_hashes |-> [i \in 1..NUM_MEMORIES |-> at(NUM_MEMORIES + i)],
          init_hashes  |-> [s \in 1..NUM_SUBTABLES |-> at(2 * NUM_MEMORIES + s)],
          final_hashes |-> [i \in 1..NUM_MEMORIES |->
                               at(2 * NUM_MEMORIES + NUM_SUBTABLES + i)]] :
        base \in HashBases, step \in HashSteps,
        hole \in 0..(3 * NUM_MEMORIES + NUM_SUBTABLES)}

\* itertools::interleave: elements of the two sequences alternately, the
\* rest of the longer one once the other is exhausted
RECURSIVE interleave(_, _)
interleave(a, b) ==
    IF a = <<>> THEN b ELSE <<Head(a)>> \o interleave(b, Tail(a))

RECURSIVE init_final_from(_, _)
init_final_from(h, subtable_index) ==
    IF subtable_index >= NUM_SUBTABLES THEN <<>>
    ELSE <<h.init_hashes[subtable_index + 1]>>
            \o SubSeq(h.final_hashes, C * subtable_index + 1, C * (subtable_index + 1))
            \o init_final_from(h, subtable_index + 1)

interleave_hashes_WriteFirst(multiset_hashes) ==
    [read_write_hashes |-> interleave(multiset_hashes.write_hashes,
                                      multiset_hashes.read_hashes),
     init_final_hashes |-> init_final_from(multiset_hashes, 0)]

\* InstructionLookups::interleave_hashes
interleave_hashes(multiset_hashes) ==
    [read_write_hashes |-> interleave(multiset_hashes.read_hashes,
                                      multiset_hashes.write_hashes),
     init_final_hashes |-> init_final_from(multiset_hashes, 0)]

InitHashes ==
    /\ hs_h \in HashInputs
    /\ hs_pc = "interleave"
    /\ hs_rw = <<>>
    /\ hs_if = <<>>
    /\ hs_back = <<>>
    /\ IdleBytecode
    /\ IdleSubtable
    /\ IdleMerge
    /\ IdleLookups
    /\ IdleVerify
    /\ IdleSumcheck
    /\ IdleTree
    /\ IdleBge
    /\ IdleFingerprint
    /\ IdleBatched
    /\ IdleMemory
    /\ IdleTimestamp
    /\ IdleSll
    /\ IdleR1cs

InterleaveHashes ==
    /\ hs_pc = "interleave"
    /\ LET res == interleave_hashes(hs_h)
       IN  /\ hs_rw' = res.read_write_hashes
           /\ hs_if' = res.init_final_hashes
    /\ hs_pc' = "uninterleave"
    /\ UNCHANGED <<hs_h, hs_back>>
    /\ UNCHANGED otherThanHashes

\* uninterleave_hashes with its two assert_eq on the lengths
UninterleaveHashes ==
    /\ hs_pc = "uninterleave"
    /\ IF Len(hs_rw) # 2 * NUM_MEMORIES \/ Len(hs_if) # NUM_SUBTABLES + NUM_MEMORIES
       THEN /\ hs_pc' = "panic"
            /\ UNCHANGED hs_back
       ELSE /\ hs_back' = uninterleave_hashes(hs_rw, hs_if)
            /\ hs_pc' = "done"
    /\ UNCHANGED <<hs_h, hs_rw, hs_if>>
    /\ UNCHANGED otherThanHashes

NextHashes ==
    \/ InterleaveHashes
    \/ UninterleaveHashes

SpecHashes == InitHashes /\ [][NextHashes]_vars

\* C29: for MultisetHashes h with NUM_SUBTABLES init hashes and NUM_MEMORIES
\* read, write and final hashes, uninterleave_hashes(interleave_hashes(h)) = h
\* (no assertion fails); the read/write vector is read_0, write_0, read_1,
\* write_1, ... and the init/final vector is, for every subtable in order,
\* its init hash followed by its C final hashes.
C29_InterleaveRoundTrip ==
    /\ hs_pc # "panic"
    /\ hs_pc \in {"uninterleave", "done"} =>
           /\ Len(hs_rw) = 2 * NUM_MEMORIES
           /\ \A i \in 0..(NUM_MEMORIES - 1) :
                  /\ hs_rw[2 * i + 1] = hs_h.read_hashes[i + 1]
                  /\ hs_rw[2 * i + 2] = hs_h.write_hashes[i + 1]
           /\ Len(hs_if) = NUM_SUBTABLES + NUM_MEMORIES
           /\ \A s \in 0..(NUM_SUBTABLES - 1) :
                  /\ hs_if[s * (C + 1) + 1] = hs_h.init_hashes[s + 1]
                  /\ \A d \in 1..C :
                         hs_if[s * (C + 1) + 1 + d] = hs_h.final_hashes[C * s + d]
    /\ hs_pc = "done" => hs_back = hs_h

C29_Witness ==
    /\ hs_pc = "done"
    /\ hs_back = hs_h
    /\ hs_h.read_hashes[1] = 8
    /\ hs_h.write_hashes[1] = 0
    /\ hs_rw[1] = 8 /\ hs_rw[2] = 0
    /\ hs_if[1] # hs_if[2]
    /\ Cardinality({hs_rw[k] : k \in DOMAIN hs_rw}) = 2 * NUM_MEMORIES

(***************************************************************************)
(* BytecodePolynomials::r1cs_polys_from_bytecode: validate_bytecode,       *)
(* preprocess, then the unpadded vectors for R1CS.                         *)
(***************************************************************************)
MaxR1csLen == 2

\* addresses of the first two instruction slots, one below RAM_START_ADDRESS
\* and one that is not a multiple of BYTES_PER_INSTRUCTION
R1csAddresses ==
    {to_ram_address(0), to_ram_address(1),
     RAM_START_ADDRESS - BYTES_PER_INSTRUCTION, to_ram_address(1) + 2}

R1csRows == {RowAt(a, v) : a \in R1csAddresses, v \in FieldVals}

\* F::from_u64 on every entry
to_f_vec(vec) == [i \in DOMAIN vec |-> vec[i] % FieldP]

\* FiveTuplePoly::from_elf_r1cs: the five fields packed column after column,
\* without padding
from_elf_r1cs(elf) ==
    LET len == Len(elf)
    IN  [k \in 1..(5 * len) |->
            LET row == elf[((k - 1) % len) + 1]
                column == (k - 1) \div len
            IN  (CASE column = 0 -> row.opcode
                   [] column = 1 -> row.rd
                   [] column = 2 -> row.rs1
                   [] column = 3 -> row.rs2
                   [] OTHER -> row.imm) % FieldP]

r1cs_address_NoOffset(address) == address * 4

\* `trace.address * 4 + RAM_START_ADDRESS` of the loop of
\* r1cs_polys_from_bytecode
r1cs_address(address) == address * 4 + RAM_START_ADDRESS

InitR1cs ==
    /\ r1_arg_bytecode \in SeqsUpTo(R1csRows, 1, MaxR1csLen)
    /\ r1_arg_trace \in SeqsUpTo(R1csRows, 0, MaxR1csLen)
    /\ r1_bytecode = r1_arg_bytecode
    /\ r1_trace = r1_arg_trace
    /\ r1_pc = "validate"
    /\ r1_out = <<>>
    /\ IdleBytecode
    /\ IdleSubtable
    /\ IdleMerge
    /\ IdleLookups
    /\ IdleVerify
    /\ IdleSumcheck
    /\ IdleTree
    /\ IdleBge
    /\ IdleFingerprint
    /\ IdleBatched
    /\ IdleMemory
    /\ IdleTimestamp
    /\ IdleSll
    /\ IdleHashes

\* Self::validate_bytecode(&bytecode, &trace)
R1csValidate ==
    /\ r1_pc = "validate"
    /\ r1_pc' = IF validate_bytecode(r1_bytecode, r1_trace) THEN "preprocess" ELSE "panic"
    /\ UNCHANGED <<r1_arg_bytecode, r1_arg_trace, r1_bytecode, r1_trace, r1_out>>
    /\ UNCHANGED otherThanR1cs

\* Self::preprocess(&mut bytecode, &mut trace)
R1csPreprocess ==
    /\ r1_pc = "preprocess"
    /\ IF AddressesWellFormed(r1_bytecode) /\ AddressesWellFormed(r1_trace)
       THEN /\ r1_bytecode' = PreprocessedBytecode(Normalise(r1_bytecode), 1)
            /\ r1_trace' = PreprocessedTrace(Normalise(r1_bytecode), Normalise(r1_trace), 1)
            /\ r1_pc' = "build"
       ELSE /\ r1_pc' = "panic"
            /\ UNCHANGED <<r1_bytecode, r1_trace>>
    /\ UNCHANGED <<r1_arg_bytecode, r1_arg_trace, r1_out>>
    /\ UNCHANGED otherThanR1cs

\* the rest of r1cs_polys_from_bytecode: the padding is dropped, then the
\* addresses, the packed rows and the read counts
R1csBuild ==
    /\ r1_pc = "build"
    /\ LET num_ops == Len(r1_arg_trace)
           drained == SubSeq(r1_trace, 1, num_ops)
           code_size == BytecodeCodeSize(r1_bytecode)
       IN  IF ~AddressesInRange(drained, code_size)
           THEN /\ r1_pc' = "panic"
                /\ UNCHANGED r1_out
           ELSE LET cts == CountAccesses(drained, 1, Zeros(num_ops), Zeros(code_size))
                    a_read_write_usize ==
                        [j \in 1..num_ops |-> r1cs_address(drained[j].address)]
                IN  /\ r1_out' = <<to_f_vec(a_read_write_usize),
                                   from_elf_r1cs(drained),
                                   to_f_vec(cts.read_cts)>>
                    /\ r1_pc' = "done"
    /\ UNCHANGED <<r1_arg_bytecode, r1_arg_trace, r1_bytecode, r1_trace>>
    /\ UNCHANGED otherThanR1cs

NextR1cs ==
    \/ R1csValidate
    \/ R1csPreprocess
    \/ R1csBuild

SpecR1cs == InitR1cs /\ [][NextR1cs]_vars

\* an address below RAM_START_ADDRESS or not a multiple of
\* BYTES_PER_INSTRUCTION
Malformed(address) ==
    address < RAM_START_ADDRESS \/ address % BYTES_PER_INSTRUCTION # 0

\* C30: with a bytecode or trace row whose address is below
\* RAM_START_ADDRESS or not a multiple of BYTES_PER_INSTRUCTION the function
\* aborts no later than in preprocess; otherwise preprocess replaces every
\* address by (address - RAM_START_ADDRESS) / BYTES_PER_INSTRUCTION, and the
\* result has a_read_write[i] = the original address of trace row i and the
\* lengths n, 5n and n for a trace of n rows.
C30_PreprocessAndR1csAddresses ==
    LET n == Len(r1_arg_trace)
        bad == \/ \E i \in DOMAIN r1_arg_bytecode : Malformed(r1_arg_bytecode[i].address)
               \/ \E j \in DOMAIN r1_arg_trace : Malformed(r1_arg_trace[j].address)
    IN  /\ bad => r1_pc \in {"validate", "preprocess", "panic"}
        /\ r1_pc \in {"build", "done"} =>
               /\ \A i \in DOMAIN r1_arg_bytecode :
                      r1_bytecode[i].address * BYTES_PER_INSTRUCTION + RAM_START_ADDRESS
                          = r1_arg_bytecode[i].address
               /\ \A j \in DOMAIN r1_arg_trace :
                      r1_trace[j].address * BYTES_PER_INSTRUCTION + RAM_START_ADDRESS
                          = r1_arg_trace[j].address
        /\ ~bad /\ r1_pc = "panic" => ~validate_bytecode(r1_arg_bytecode, r1_arg_trace)
        /\ r1_pc = "done" =>
               /\ Len(r1_out[1]) = n
               /\ Len(r1_out[2]) = 5 * n
               /\ Len(r1_out[3]) = n
               /\ \A j \in 1..n : r1_out[1][j] = r1_arg_trace[j].address % FieldP

C30_Witness ==
    /\ r1_pc = "done"
    /\ Len(r1_arg_trace) = 2
    /\ r1_arg_trace[1].address = to_ram_address(1)
    /\ r1_arg_trace[2].address = to_ram_address(0)
    /\ Len(r1_trace) = 2
    /\ r1_trace[1].address = 1
    /\ r1_out[1] = <<to_ram_address(1) % FieldP, to_ram_address(0) % FieldP>>
    /\ Len(r1_out[2]) = 10

\* a malformed address makes preprocess abort
C30_WitnessAbort ==
    /\ r1_pc = "panic"
    /\ validate_bytecode(r1_arg_bytecode, r1_arg_trace)
    /\ \E j \in DOMAIN r1_arg_trace : Malformed(r1_arg_trace[j].address)

=============================================================================
